---- MODULE Spec2Model ----
(***************************************************************************)
(* OpenCycle admin data layer: the analytics aggregator of the admin       *)
(* migration (get_platform_analytics, get_user_growth_data,                *)
(* get_category_distribution) over the tables it reads, together with the  *)
(* writes the application performs on those tables.                        *)
(*                                                                         *)
(* Time is counted in calendar days: a timestamptz column is represented   *)
(* by the day it falls on, CURRENT_DATE by the variable today.  A table is *)
(* a bag of rows, each row projected on the columns the aggregator reads;  *)
(* users keeps its primary key because item_views refers to it.            *)
(* A numeric(_,2) percentage is held as an integer number of hundredths    *)
(* (6667 stands for 66.67).                                                *)
(***************************************************************************)
EXTENDS Integers, Sequences, FiniteSets, Bags, TLC

VARIABLES
  today,       \* CURRENT_DATE, as a day number
  users,       \* public.users: id -> [created_at, email]
  items,       \* public.items: bag of [category, is_available, created_at]
  item_views,  \* public.item_views: bag of [user_id, created_at]
  favorites,   \* public.favorites: number of rows
  messages,    \* public.messages: number of rows
  reports,     \* public.reports: bag of [id, status]
  lastCall,    \* the most recent call on the data layer and its response
  previous,    \* the call before lastCall, when both are platform snapshots
  auth_uid,    \* auth.uid(): the id of the signed-in user, NULL when signed out
  log_args,    \* the arguments of the call of log_admin_action in lastCall
  admin_logs,  \* public.admin_logs: the rows in the order they were written
  admin_settings, \* public.admin_settings: bag of [key, value]
  screen       \* the state of the mounted admin screen

vars ==
  <<today, users, items, item_views, favorites, messages, reports, lastCall, previous,
    auth_uid, log_args, admin_logs, admin_settings, screen>>

(***************************************************************************)
(* Bounds of the model.                                                    *)
(***************************************************************************)
MaxUsers == 5
MaxItems == 6
NumCategories == 6
MaxDay == 2
MaxWindow == 2
MaxRows == 3
MaxViewers == 2
MaxSnapshotDay == 1
MaxReports == 2
MaxLogs == 2
MaxAuditUsers == 3
MaxAuditRows == 2
NumSettings == 2
MaxAnalyticsItems == 1
MaxDashboardRows == 2
MaxFailedQueries == 1
MaxPolicyUsers == 1
MaxScreenItems == 2
MaxInFlight == 2
DivScale == 6

NULL == 0

UserIds == 1..MaxUsers

\* the user ids of the platform-snapshot specification
Viewers == 1..MaxViewers

\* the lookback windows a caller passes: negative, zero and positive
Windows == (0 - 1)..MaxWindow

\* the values passed for the days_back of get_platform_analytics: its
\* default and another
SnapshotWindows == {30, 0}

CategoryNames ==
  <<"Books", "Toys", "Electronics", "Furniture", "Clothing", "Kitchen", "Sports", "Other">>

Categories == {CategoryNames[i] : i \in 1..NumCategories}

ReportStatus == {"pending", "reviewed", "resolved", "dismissed"}

ReportIds == 1..MaxReports

NoRows == <<>>

Response(op, days_back, err, rows) ==
  [op |-> op, days_back |-> days_back, at |-> today, err |-> err, rows |-> rows]

Void(op) == Response(op, 0, "ok", NoRows)

NoCall == [op |-> "none", days_back |-> 0, at |-> 0, err |-> "ok", rows |-> NoRows]

\* no call of log_admin_action
NoArgs == [action_name |-> <<>>, target_type_param |-> <<>>,
           target_id_param |-> <<>>, details_param |-> <<>>]

\* no admin screen is mounted
NoScreen == [name |-> "none"]

\* a step that is no call of log_admin_action and writes neither admin table
NoAdminWrite ==
  /\ log_args' = NoArgs
  /\ UNCHANGED <<auth_uid, admin_logs, admin_settings, screen>>

(***************************************************************************)
(* get_user_growth_data(days_back)                                         *)
(***************************************************************************)
GenerateSeries_exclusive(start, stop) ==
  [i \in 1..(stop - start) |-> start + (i - 1)]

\* generate_series(start, stop, INTERVAL '1 day')::date
GenerateSeries(start, stop) ==
  [i \in 1..(stop - start + 1) |-> start + (i - 1)]

\* WITH date_series AS (...)
date_series(days_back) == GenerateSeries(today - days_back, today)

daily_users_strict(days_back) ==
  LET kept == {u \in DOMAIN users : users[u].created_at > today - days_back}
  IN  {[date |-> d,
        new_users |-> Cardinality({u \in kept : users[u].created_at = d})]
         : d \in {users[u].created_at : u \in kept}}

\* daily_users AS (SELECT created_at::date, COUNT(*) ... WHERE ... GROUP BY created_at::date)
daily_users(days_back) ==
  LET kept == {u \in DOMAIN users : users[u].created_at >= today - days_back}
  IN  {[date |-> d,
        new_users |-> Cardinality({u \in kept : users[u].created_at = d})]
         : d \in {users[u].created_at : u \in kept}}

\* date_series ds LEFT JOIN daily_users du ON ds.date = du.date, with
\* COALESCE(du.new_users, 0); daily_users holds one row per date at most
growth_join(days_back) ==
  LET ds == date_series(days_back)
      du == daily_users(days_back)
  IN  [i \in 1..Len(ds) |->
         LET matches == {r \in du : r.date = ds[i]}
         IN  [date |-> ds[i],
              new_users |-> IF matches = {} THEN 0
                            ELSE (CHOOSE r \in matches : TRUE).new_users]]

RECURSIVE SumNewUsers(_)
SumNewUsers(rows) ==
  IF rows = <<>> THEN 0 ELSE Head(rows).new_users + SumNewUsers(Tail(rows))

WindowSum_preceding(joined, i) ==
  LET Before(r) == r.date < joined[i].date
  IN  SumNewUsers(SelectSeq(joined, Before))

\* SUM(...) OVER (ORDER BY ds.date): the default frame, every row up to the
\* current row and its peers
WindowSum(joined, i) ==
  LET UpTo(r) == r.date <= joined[i].date
  IN  SumNewUsers(SelectSeq(joined, UpTo))

get_user_growth_data(days_back) ==
  LET joined == growth_join(days_back)
  IN  [i \in 1..Len(joined) |->
         [date |-> joined[i].date,
          new_users |-> joined[i].new_users,
          cumulative_users |-> WindowSum(joined, i)]]

(***************************************************************************)
(* get_category_distribution()                                             *)
(***************************************************************************)
RECURSIVE SumCopies(_, _)
\* COUNT(*) over the rows of bag B that are in the set R
SumCopies(R, B) ==
  IF R = {} THEN 0
  ELSE LET r == CHOOSE x \in R : TRUE
       IN  CopiesIn(r, B) + SumCopies(R \ {r}, B)

category_counts_all ==
  LET rows == BagToSet(items)
  IN  {[category |-> c,
        item_count |-> SumCopies({r \in rows : r.category = c /\ r.is_available}, items)]
         : c \in {r.category : r \in rows}}

category_counts_unfiltered ==
  LET rows == BagToSet(items)
  IN  {[category |-> c,
        item_count |-> SumCopies({r \in rows : r.category = c}, items)]
         : c \in {r.category : r \in rows}}

\* category_counts AS (SELECT i.category, COUNT(*) FROM public.items i
\*                     WHERE i.is_available = true GROUP BY i.category)
category_counts ==
  LET rows == {r \in BagToSet(items) : r.is_available}
  IN  {[category |-> c,
        item_count |-> SumCopies({r \in rows : r.category = c}, items)]
         : c \in {r.category : r \in rows}}

RECURSIVE SumItemCount(_)
SumItemCount(cc) ==
  IF cc = {} THEN 0
  ELSE LET r == CHOOSE x \in cc : TRUE
       IN  r.item_count + SumItemCount(cc \ {r})

\* total_items AS (SELECT SUM(item_count) as total FROM category_counts):
\* always one row, whose total is NULL when category_counts is empty
total_items ==
  [is_null |-> category_counts = {}, total |-> SumItemCount(category_counts)]

RECURSIVE Pow10(_)
Pow10(n) == IF n = 0 THEN 1 ELSE 10 * Pow10(n - 1)

RoundDiv_truncate(a, b) == a \div b

\* a / b rounded to the nearest integer, ties away from zero (a >= 0, b > 0):
\* the rounding of numeric division and of ROUND()
RoundDiv(a, b) == (2 * a + b) \div (2 * b)

\* a::numeric / b::numeric: the quotient rounded at DivScale decimal digits,
\* returned as a multiple of 10^-DivScale
NumericDiv(a, b) == RoundDiv(a * Pow10(DivScale), b)

\* ROUND((item_count::numeric / total::numeric) * 100, 2), in hundredths
Percentage(item_count, total) ==
  RoundDiv(NumericDiv(item_count, total) * 100, Pow10(DivScale - 2))

RECURSIVE OrderByCountDesc(_)
\* ORDER BY cc.item_count DESC: every order of the rows with no row before a
\* row of greater item_count (rows of equal count come in any order)
OrderByCountDesc(S) ==
  IF S = {} THEN {<<>>}
  ELSE LET top == {r \in S : \A o \in S : o.item_count <= r.item_count}
       IN  UNION {{<<r>> \o t : t \in OrderByCountDesc(S \ {r})} : r \in top}

\* FROM category_counts cc CROSS JOIN total_items ti: one row per category;
\* evaluating the percentage of a row raises division_by_zero when ti.total
\* is 0 and gives NULL when it is NULL
get_category_distribution ==
  LET cc == category_counts
      ti == total_items
      Row(c) == [category |-> c.category,
                 item_count |-> c.item_count,
                 percentage |-> IF ti.is_null THEN NULL
                                ELSE Percentage(c.item_count, ti.total)]
  IN  IF cc # {} /\ ~ti.is_null /\ ti.total = 0
        THEN {[err |-> "division_by_zero", rows |-> NoRows]}
        ELSE {[err |-> "ok", rows |-> rows] : rows \in OrderByCountDesc({Row(c) : c \in cc})}

(***************************************************************************)
(* get_platform_analytics(days_back)                                       *)
(***************************************************************************)
\* (SELECT COUNT(*) FROM t), t a bag of rows
CountRows(t) == SumCopies(BagToSet(t), t)

\* (SELECT COUNT(*) FROM t WHERE created_at >= CURRENT_DATE)
CountSince(t, day) ==
  SumCopies({r \in BagToSet(t) : r.created_at >= day}, t)

ActiveUsersToday_countNull ==
  Cardinality({r.user_id : r \in {v \in BagToSet(item_views) : v.created_at >= today}})

\* (SELECT COUNT(DISTINCT user_id) FROM public.item_views
\*   WHERE created_at >= CURRENT_DATE): the distinct values that are not NULL
ActiveUsersToday ==
  Cardinality({r.user_id : r \in {v \in BagToSet(item_views) : v.created_at >= today}}
                \ {NULL})

PendingReports_open ==
  SumCopies({r \in BagToSet(reports) : r.status # "resolved"}, reports)

\* (SELECT COUNT(*) FROM public.reports WHERE status = 'pending')
PendingReports ==
  SumCopies({r \in BagToSet(reports) : r.status = "pending"}, reports)

NewUsersSince(day) ==
  Cardinality({u \in DOMAIN users : users[u].created_at >= day})

PlatformRow(new_users_today) ==
  [total_users |-> Cardinality(DOMAIN users),
   total_items |-> CountRows(items),
   total_views |-> CountRows(item_views),
   total_favorites |-> favorites,
   total_messages |-> messages,
   total_reports |-> CountRows(reports),
   active_users_today |-> ActiveUsersToday,
   new_users_today |-> new_users_today,
   new_items_today |-> CountSince(items, today),
   pending_reports |-> PendingReports]

get_platform_analytics_window(days_back) ==
  <<PlatformRow(NewUsersSince(today - days_back))>>

\* RETURN QUERY SELECT (SELECT COUNT(*) ...) as total_users, ...: one row of
\* ten scalar subqueries; days_back is not read
get_platform_analytics(days_back) ==
  <<PlatformRow(NewUsersSince(today))>>

(***************************************************************************)
(* Writes on the users table and the clock.                                *)
(***************************************************************************)
\* the email each account is created with
Emails ==
  <<[local |-> "admin", domain |-> "opencycle.com"],
    [local |-> "ana", domain |-> "opencycle.com"],
    [local |-> "mod", domain |-> "admin.opencycle.com"],
    [local |-> "admin", domain |-> "example.com"]>>

Email(id) == Emails[((id - 1) % Len(Emails)) + 1]

\* a new users row: id from gen_random_uuid(), created_at DEFAULT now()
InsertUser(ids) ==
  /\ \E id \in ids \ DOMAIN users :
       users' = [u \in DOMAIN users \cup {id} |->
                   IF u = id THEN [created_at |-> today, email |-> Email(id)]
                   ELSE users[u]]
  /\ lastCall' = Void("insert_user")
  /\ UNCHANGED <<today, items, item_views, favorites, messages, reports>>
  /\ previous' = NoCall
  /\ NoAdminWrite

BagWhere(B, Keep(_)) ==
  LET kept == {r \in BagToSet(B) : Keep(r)}
  IN  [r \in kept |-> CopiesIn(r, B)]

\* item_views.user_id refers to users(id): the rows of a deleted user either
\* lose their viewer (ON DELETE SET NULL) or go with it (ON DELETE CASCADE)
ViewsAfterUserDelete(userId, rule) ==
  LET Unset(r) == IF r.user_id = userId THEN [r EXCEPT !.user_id = NULL] ELSE r
      Others(r) == r.user_id # userId
  IN  IF rule = "SET NULL" THEN BagOfAll(Unset, item_views)
      ELSE BagWhere(item_views, Others)

LogsAfterUserDelete_cascade(userId) ==
  LET Others(r) == r.admin_id # userId
  IN  SelectSeq(admin_logs, Others)

\* admin_id uuid REFERENCES public.users(id) ON DELETE SET NULL: the log rows
\* of a deleted user stay, without their admin_id
LogsAfterUserDelete(userId) ==
  [i \in DOMAIN admin_logs |->
     IF admin_logs[i].admin_id = userId
     THEN [admin_logs[i] EXCEPT !.admin_id = NULL]
     ELSE admin_logs[i]]

\* handleDeleteUser(userId): supabase.from('users').delete().eq('id', userId),
\* when the delete succeeds (a failed one writes nothing)
handleDeleteUser ==
  /\ \E userId \in DOMAIN users :
       /\ users' = [u \in DOMAIN users \ {userId} |-> users[u]]
       /\ admin_logs' = LogsAfterUserDelete(userId)
       /\ \E rule \in {"SET NULL", "CASCADE"} :
            item_views' = ViewsAfterUserDelete(userId, rule)
  /\ lastCall' = Void("delete_user")
  /\ UNCHANGED <<today, items, favorites, messages, reports>>
  /\ previous' = NoCall
  /\ log_args' = NoArgs
  /\ UNCHANGED <<auth_uid, admin_settings, screen>>

\* a new items row, created_at DEFAULT now()
InsertItem(categories) ==
  /\ \E category \in categories, is_available \in BOOLEAN :
       items' = items (+) SetToBag({[category |-> category,
                                     is_available |-> is_available,
                                     created_at |-> today]})
  /\ lastCall' = Void("insert_item")
  /\ UNCHANGED <<today, users, item_views, favorites, messages, reports>>
  /\ previous' = NoCall
  /\ NoAdminWrite

\* the storage write of handleToggleAvailability(itemId, currentStatus):
\* update({ is_available: !currentStatus }).eq('id', itemId), where
\* currentStatus is the value the screen holds; the step is a successful
\* update (a failed one writes nothing)
UpdateStoredItem ==
  /\ \E item \in BagToSet(items), currentStatus \in BOOLEAN :
       items' = (items (-) SetToBag({item}))
                  (+) SetToBag({[item EXCEPT !.is_available = ~currentStatus]})
  /\ lastCall' = Void("update_item")
  /\ UNCHANGED <<today, users, item_views, favorites, messages, reports>>
  /\ previous' = NoCall
  /\ NoAdminWrite

\* the storage write of handleDeleteItem(itemId): delete().eq('id', itemId),
\* when it succeeds
DeleteStoredItem ==
  /\ \E item \in BagToSet(items) : items' = items (-) SetToBag({item})
  /\ lastCall' = Void("delete_item")
  /\ UNCHANGED <<today, users, item_views, favorites, messages, reports>>
  /\ previous' = NoCall
  /\ NoAdminWrite

CallCategoryDistribution ==
  /\ \E r \in get_category_distribution :
       lastCall' = Response("get_category_distribution", 0, r.err, r.rows)
  /\ UNCHANGED <<today, users, items, item_views, favorites, messages, reports>>
  /\ previous' = NoCall
  /\ NoAdminWrite

\* recordView: recordItemView(id, user?.id) adds an item_views row whose
\* user_id is the signed-in user's id, or NULL for an anonymous visitor; a
\* user_id with no users row is refused by the foreign key
recordView(ids) ==
  /\ \E viewer \in ids \cup {NULL} :
       IF viewer = NULL \/ viewer \in DOMAIN users
       THEN /\ item_views' = item_views
                               (+) SetToBag({[user_id |-> viewer, created_at |-> today]})
            /\ lastCall' = Void("insert_item_view")
       ELSE /\ UNCHANGED item_views
            /\ lastCall' = Response("insert_item_view", 0, "foreign_key_violation", NoRows)
  /\ UNCHANGED <<today, users, items, favorites, messages, reports>>
  /\ previous' = NoCall
  /\ NoAdminWrite

\* handleFavoriteToggle: toggleFavorite(id, user.id) adds the user's favorite
\* of the item, or removes it when it exists
handleFavoriteToggle ==
  /\ \/ favorites' = favorites + 1
     \/ /\ favorites > 0
        /\ favorites' = favorites - 1
  /\ lastCall' = Void("toggle_favorite")
  /\ UNCHANGED <<today, users, items, item_views, messages, reports>>
  /\ previous' = NoCall
  /\ NoAdminWrite

\* a new messages row
InsertMessage ==
  /\ messages' = messages + 1
  /\ lastCall' = Void("insert_message")
  /\ UNCHANGED <<today, users, items, item_views, favorites, reports>>
  /\ previous' = NoCall
  /\ NoAdminWrite

\* a new reports row: id from gen_random_uuid(), status 'pending'
InsertReport ==
  /\ \E id \in ReportIds \ {r.id : r \in BagToSet(reports)} :
       reports' = reports (+) SetToBag({[id |-> id, status |-> "pending"]})
  /\ lastCall' = Void("insert_report")
  /\ UNCHANGED <<today, users, items, item_views, favorites, messages>>
  /\ previous' = NoCall
  /\ NoAdminWrite

CallPlatformAnalytics ==
  /\ \E days_back \in SnapshotWindows :
       lastCall' = Response("get_platform_analytics", days_back, "ok",
                            get_platform_analytics(days_back))
  /\ previous' = IF lastCall.op = "get_platform_analytics"
                 THEN [lastCall EXCEPT !.days_back = 0]
                 ELSE NoCall
  /\ UNCHANGED <<today, users, items, item_views, favorites, messages, reports>>
  /\ NoAdminWrite

\* midnight passes
NextDay ==
  /\ today < MaxDay
  /\ today' = today + 1
  /\ UNCHANGED <<users, items, item_views, favorites, messages, reports, lastCall, previous>>
  /\ UNCHANGED <<auth_uid, log_args, admin_logs, admin_settings, screen>>

CallUserGrowth ==
  /\ \E days_back \in Windows :
       lastCall' = Response("get_user_growth_data", days_back, "ok",
                            get_user_growth_data(days_back))
  /\ UNCHANGED <<today, users, items, item_views, favorites, messages, reports>>
  /\ previous' = NoCall
  /\ NoAdminWrite

(***************************************************************************)
(* Administrators, sessions and the admin log.                             *)
(*                                                                         *)
(* An email is the pair of its local part and its domain.  An optional     *)
(* text, uuid or jsonb value is a sequence of at most one element: <<>> is *)
(* SQL NULL (an absent argument), <<v>> the value v.                       *)
(***************************************************************************)
Absent == <<>>

Some(v) == <<v>>

\* email = 'admin@opencycle.com' OR email LIKE '%@admin.opencycle.com'
IsAdminEmail(email) ==
  \/ email = [local |-> "admin", domain |-> "opencycle.com"]
  \/ email.domain = "admin.opencycle.com"

\* the predicate on the email the account was created with
is_admin_atSignUp == auth_uid \in DOMAIN users /\ IsAdminEmail(Email(auth_uid))

\* EXISTS (SELECT 1 FROM public.users WHERE id = auth.uid() AND (...)),
\* a subquery of the policy, run by every statement on the table
is_admin == auth_uid \in DOMAIN users /\ IsAdminEmail(users[auth_uid].email)

\* a user who has a users row signs in (or out, uid = NULL); the session
\* outlives the users row
SignIn(ids) ==
  /\ \E uid \in (ids \cap DOMAIN users) \cup {NULL} :
       /\ uid # auth_uid
       /\ auth_uid' = uid
  /\ lastCall' = Void("sign_in")
  /\ previous' = NoCall
  /\ log_args' = NoArgs
  /\ UNCHANGED <<today, users, items, item_views, favorites, messages, reports>>
  /\ UNCHANGED <<admin_logs, admin_settings, screen>>

\* the commented-out role check: a user who is no administrator is sent home
RouteElement_adminOnly(loading, user) ==
  IF loading THEN "loading"
  ELSE IF user = NULL THEN "navigate_auth"
  ELSE IF user \in DOMAIN users /\ IsAdminEmail(users[user].email) THEN "children"
  ELSE "navigate_home"

\* if (loading) return spinner; if (!user) return <Navigate to="/auth">;
\* return <>{children}</>
RouteElement(loading, user) ==
  IF loading THEN "loading"
  ELSE IF user = NULL THEN "navigate_auth"
  ELSE "children"

\* ProtectedAdminRoute renders with the user and the loading flag of useAuth
ProtectedAdminRoute ==
  /\ \E loading \in BOOLEAN :
       /\ lastCall' = Response("ProtectedAdminRoute", 0,
                               RouteElement(loading, auth_uid), NoRows)
       /\ screen' = [name |-> "route", loading |-> loading,
                     element |-> RouteElement(loading, auth_uid)]
  /\ previous' = NoCall
  /\ log_args' = NoArgs
  /\ UNCHANGED <<today, users, items, item_views, favorites, messages, reports>>
  /\ UNCHANGED <<auth_uid, admin_logs, admin_settings>>

HexDigits == {"0", "1", "2", "3", "4", "5", "6", "7", "8", "9",
              "a", "b", "c", "d", "e", "f"}

\* the digits of a uuid (shortened)
UuidDigits == 2

\* the input function of type uuid: the text of UuidDigits hexadecimal
\* digits is a uuid, any other text is refused
ParseUuid(text) ==
  IF Len(text) = UuidDigits /\ \A i \in 1..Len(text) : text[i] \in HexDigits
  THEN [ok |-> TRUE, value |-> text]
  ELSE [ok |-> FALSE, value |-> <<>>]

LogArgs(action_name, target_type_param, target_id_param, details_param) ==
  [action_name |-> action_name, target_type_param |-> target_type_param,
   target_id_param |-> target_id_param, details_param |-> details_param]

\* the calls made: every argument given; the action name alone; a target id
\* with a letter that is no digit; a target id that is too short; no action
\* name
LogArguments ==
  {LogArgs(Some("delete_item"), Some("item"), Some(<<"a", "1">>), Some("{}")),
   LogArgs(Some("delete_item"), Absent, Absent, Absent),
   LogArgs(Some("delete_item"), Some("item"), Some(<<"a", "g">>), Absent),
   LogArgs(Some("delete_item"), Some("item"), Some(<<"a">>), Absent),
   LogArgs(Absent, Absent, Absent, Absent)}

LogRow_suppliedIdentity(action_name, target_type_param, target_id, details_param) ==
  [admin_id |-> IF admin_logs = <<>> THEN auth_uid ELSE admin_logs[1].admin_id,
   action |-> action_name,
   target_type |-> target_type_param,
   target_id |-> target_id,
   details |-> details_param,
   created_at |-> today]

\* the row log_admin_action inserts
LogRow(action_name, target_type_param, target_id, details_param) ==
  [admin_id |-> auth_uid,
   action |-> action_name,
   target_type |-> target_type_param,
   target_id |-> target_id,
   details |-> details_param,
   created_at |-> today]

\* log_admin_action(action_name, target_type_param, target_id_param,
\* details_param), called by the signed-in user (EXECUTE is granted to
\* authenticated).  The uuid argument is parsed before the body runs; the
\* INSERT is subject to action NOT NULL and to the foreign key of admin_id.
\* SECURITY DEFINER: the body runs as the owner of the table, to whom the
\* row-level policies do not apply.
log_admin_action ==
  /\ auth_uid # NULL
  /\ Len(admin_logs) < MaxLogs
  /\ \E args \in LogArguments :
       LET action_name == args.action_name
           target_type_param == args.target_type_param
           target_id_param == args.target_id_param
           details_param == args.details_param
           parsed == IF target_id_param = Absent THEN [ok |-> TRUE, value |-> Absent]
                     ELSE LET u == ParseUuid(target_id_param[1])
                          IN  [ok |-> u.ok, value |-> Some(u.value)]
           err == IF ~parsed.ok THEN "invalid_text_representation"
                  ELSE IF action_name = Absent THEN "not_null_violation"
                  ELSE IF auth_uid \notin DOMAIN users THEN "foreign_key_violation"
                  ELSE "ok"
       IN  /\ log_args' = args
           /\ lastCall' = Response("log_admin_action", 0, err, NoRows)
           /\ admin_logs' =
                IF err = "ok"
                THEN Append(admin_logs,
                            LogRow(action_name, target_type_param, parsed.value,
                                   details_param))
                ELSE admin_logs
  /\ previous' = NoCall
  /\ UNCHANGED <<today, users, items, item_views, favorites, messages, reports>>
  /\ UNCHANGED <<auth_uid, admin_settings, screen>>

\* SELECT * FROM admin_logs through the API: the policy "Only admins can
\* view logs" hides every row from a caller who is no administrator
SelectAdminLogs ==
  /\ auth_uid # NULL
  /\ lastCall' = Response("select_admin_logs", 0, "ok",
                          IF is_admin THEN admin_logs ELSE NoRows)
  /\ previous' = NoCall
  /\ NoAdminWrite
  /\ UNCHANGED <<today, users, items, item_views, favorites, messages, reports>>

\* the email of a users row is changed (an UPDATE of public.users.email by
\* the account's owner or by the operator)
UpdateEmail ==
  /\ \E id \in DOMAIN users, i \in 1..Len(Emails) :
       /\ Emails[i] # users[id].email
       /\ users' = [users EXCEPT ![id].email = Emails[i]]
  /\ lastCall' = Void("update_email")
  /\ previous' = NoCall
  /\ NoAdminWrite
  /\ UNCHANGED <<today, items, item_views, favorites, messages, reports>>

(***************************************************************************)
(* The reports screen (ReportsManagement).                                 *)
(*                                                                         *)
(* Its state is the list of reports it fetched, as a function from report  *)
(* id to status, and the selected report, <<>> or <<[id, status]>>.        *)
(***************************************************************************)
\* the rows of public.reports as a function from id to status
StoredReports ==
  LET ids == {r.id : r \in BagToSet(reports)}
  IN  [id \in ids |-> (CHOOSE r \in BagToSet(reports) : r.id = id).status]

LoadingAfterFetch_inTry(ok) == ~ok

\* finally { setLoading(false) }, of fetchAnalytics, fetchDashboardData,
\* fetchItems and fetchReports, after a fetch that succeeded (ok) or failed
LoadingAfterFetch(ok) == FALSE

\* useState: reports [], loading true, selectedReport null; useEffect starts
\* fetchReports
MountReportsManagement ==
  /\ screen = NoScreen
  /\ screen' = [name |-> "reports", loading |-> TRUE, reports |-> <<>>,
                selectedReport |-> Absent]
  /\ lastCall' = Void("mount_reports_management")
  /\ previous' = NoCall
  /\ log_args' = NoArgs
  /\ UNCHANGED <<today, users, items, item_views, favorites, messages, reports>>
  /\ UNCHANGED <<auth_uid, admin_logs, admin_settings>>

\* fetchReports, from the settled select on: setReports(data || []) when it
\* succeeded, the catch when it failed, setLoading(false) in both cases
fetchReports ==
  /\ screen.name = "reports"
  /\ screen.loading
  /\ \E ok \in BOOLEAN :
       /\ screen' = [screen EXCEPT !.reports = IF ok THEN StoredReports ELSE @,
                                   !.loading = LoadingAfterFetch(ok)]
       /\ lastCall' = Response("select_reports", 0,
                               IF ok THEN "ok" ELSE "storage_error", NoRows)
  /\ previous' = NoCall
  /\ log_args' = NoArgs
  /\ UNCHANGED <<today, users, items, item_views, favorites, messages, reports>>
  /\ UNCHANGED <<auth_uid, admin_logs, admin_settings>>

\* the eye button: setSelectedReport(report)
SelectReport ==
  /\ screen.name = "reports"
  /\ \E id \in DOMAIN screen.reports :
       /\ screen.selectedReport # Some([id |-> id, status |-> screen.reports[id]])
       /\ screen' = [screen EXCEPT !.selectedReport =
                       Some([id |-> id, status |-> screen.reports[id]])]
  /\ lastCall' = Void("select_report")
  /\ previous' = NoCall
  /\ log_args' = NoArgs
  /\ UNCHANGED <<today, users, items, item_views, favorites, messages, reports>>
  /\ UNCHANGED <<auth_uid, admin_logs, admin_settings>>

\* handleUpdateReportStatus(reportId, status, notes): the update of the row
\* of that id; when it succeeds (ok) the report of that id in the list and
\* the selected report of that id get the status, when it fails the catch
\* logs the error and nothing changes
handleUpdateReportStatus(reportId, status, ok) ==
  LET SetStatus(r) == IF r.id = reportId THEN [r EXCEPT !.status = status] ELSE r
  IN  /\ reports' = IF ok THEN BagOfAll(SetStatus, reports) ELSE reports
      /\ screen' =
           IF ok /\ screen.name = "reports"
           THEN [screen EXCEPT
                   !.reports = [id \in DOMAIN screen.reports |->
                                  IF id = reportId THEN status ELSE screen.reports[id]],
                   !.selectedReport =
                      IF screen.selectedReport # Absent
                           /\ screen.selectedReport[1].id = reportId
                      THEN Some([screen.selectedReport[1] EXCEPT !.status = status])
                      ELSE screen.selectedReport]
           ELSE screen
      /\ lastCall' = Response("update_report", 0,
                              IF ok THEN "ok" ELSE "storage_error", NoRows)
      /\ previous' = NoCall
      /\ log_args' = NoArgs
      /\ UNCHANGED <<today, users, items, item_views, favorites, messages>>
      /\ UNCHANGED <<auth_uid, admin_logs, admin_settings>>

\* the check and cross buttons of a row whose status is 'pending' in the list
QuickUpdate ==
  /\ screen.name = "reports"
  /\ \E id \in DOMAIN screen.reports, status \in {"resolved", "dismissed"},
        ok \in BOOLEAN :
       /\ screen.reports[id] = "pending"
       /\ handleUpdateReportStatus(id, status, ok)

\* Dismiss and Resolve in the modal of a selected report whose status is
\* 'pending'
ModalUpdate ==
  /\ screen.name = "reports"
  /\ screen.selectedReport # Absent
  /\ screen.selectedReport[1].status = "pending"
  /\ \E status \in {"dismissed", "resolved"}, ok \in BOOLEAN :
       handleUpdateReportStatus(screen.selectedReport[1].id, status, ok)

UpdateNotesStatus_notes(selected) == "spam, see thread"

\* the status Update Notes passes: selectedReport.status
UpdateNotesStatus(selected) == selected.status

\* Update Notes in the modal of a selected report whose status is not
\* 'pending'
UpdateNotes ==
  /\ screen.name = "reports"
  /\ screen.selectedReport # Absent
  /\ screen.selectedReport[1].status # "pending"
  /\ \E ok \in BOOLEAN :
       handleUpdateReportStatus(screen.selectedReport[1].id,
                                UpdateNotesStatus(screen.selectedReport[1]), ok)

\* the successful update({ status, ... }).eq('id', reportId) of a reports
\* screen in another browser, which shows the stored rows: the mounted
\* screen does not hear of it
UpdateStoredReport ==
  /\ \E r \in BagToSet(reports), status \in ReportStatus :
       LET SetStatus(p) == IF p.id = r.id THEN [p EXCEPT !.status = status] ELSE p
       IN  /\ status \in {"resolved", "dismissed", r.status}
           /\ reports' = BagOfAll(SetStatus, reports)
  /\ lastCall' = Void("update_report_elsewhere")
  /\ previous' = NoCall
  /\ NoAdminWrite
  /\ UNCHANGED <<today, users, items, item_views, favorites, messages>>

(***************************************************************************)
(* The analytics screen (Analytics).                                       *)
(*                                                                         *)
(* Its state: timeRange, loading, the analytics record, and the six        *)
(* promises of the fetchAnalytics in progress with the state of their      *)
(* Promise.all.                                                            *)
(***************************************************************************)
\* the metrics, in the order of the array given to Promise.all
AnalyticsMetrics ==
  <<"userGrowth", "itemGrowth", "categoryDistribution", "topItems", "topUsers",
    "dailyActivity">>

MetricNames == {AnalyticsMetrics[i] : i \in 1..Len(AnalyticsMetrics)}

\* useState('30')
DefaultTimeRange == 30

RECURSIVE SortAsc(_)
\* the numbers of S in ascending order
SortAsc(S) ==
  IF S = {} THEN <<>>
  ELSE LET least == CHOOSE d \in S : \A e \in S : d <= e
       IN  <<least>> \o SortAsc(S \ {least})

\* growthMap: an entry for each date of the fetched rows, in the order of
\* the rows (.order('created_at')), with the number of rows of that date;
\* counts[d] is the number of fetched rows of date d
GroupByDate(counts) ==
  LET dates == SortAsc({d \in DOMAIN counts : counts[d] > 0})
  IN  [i \in 1..Len(dates) |-> [date |-> dates[i], count |-> counts[dates[i]]]]

\* fetchUserGrowth(startDate, endDate): the users rows with created_at from
\* startDate to endDate, grouped by date.  startDate is a time of day of its
\* date: boundary of the rows of that date are at or after it
fetchUserGrowth(startDate, endDate, boundary) ==
  GroupByDate([d \in startDate..endDate |->
                 IF d = startDate THEN boundary
                 ELSE Cardinality({u \in DOMAIN users : users[u].created_at = d})])

\* fetchItemGrowth(startDate, endDate)
fetchItemGrowth(startDate, endDate, boundary) ==
  GroupByDate([d \in startDate..endDate |->
                 IF d = startDate THEN boundary
                 ELSE SumCopies({r \in BagToSet(items) : r.created_at = d}, items)])

\* the sequences that hold each element of S once
Orderings(S) ==
  {seq \in [1..Cardinality(S) -> S] : \A i, j \in DOMAIN seq : i # j => seq[i] # seq[j]}

\* fetchCategoryDistribution(): the available items counted by category, in
\* the order in which the categories come in the rows (no ORDER BY)
fetchCategoryDistribution ==
  LET available == {r \in BagToSet(items) : r.is_available}
      Entry(c) == [category |-> c,
                   count |-> SumCopies({r \in available : r.category = c}, items)]
  IN  {[i \in DOMAIN seq |-> Entry(seq[i])]
         : seq \in Orderings({r.category : r \in available})}

\* fetchDailyActivity(startDate, endDate): an entry for every day from
\* startDate to endDate (their random numbers are left out)
fetchDailyActivity(startDate, endDate) ==
  [i \in 1..(endDate - startDate + 1) |-> [date |-> startDate + (i - 1)]]

\* the values a fetch can resolve with; the rows of items_with_stats and the
\* embedded counts of users are opaque
FetchResults(metric, startDate, endDate) ==
  IF metric = "userGrowth"
    THEN {fetchUserGrowth(startDate, endDate, boundary) :
            boundary \in 0..Cardinality({u \in DOMAIN users :
                                           users[u].created_at = startDate})}
  ELSE IF metric = "itemGrowth"
    THEN {fetchItemGrowth(startDate, endDate, boundary) :
            boundary \in 0..SumCopies({r \in BagToSet(items) :
                                         r.created_at = startDate}, items)}
  ELSE IF metric = "categoryDistribution" THEN fetchCategoryDistribution
  ELSE IF metric = "dailyActivity" THEN {fetchDailyActivity(startDate, endDate)}
  ELSE {<<[rows |-> metric]>>}

Pending == [state |-> "pending", value |-> <<>>]

\* the screen is mounted: useState(...), then the effect calls
\* fetchAnalytics(), which computes the dates and starts the six fetches
fetchAnalytics ==
  /\ IF screen.name = "analytics"
     THEN \A m \in MetricNames : screen.promises[m].state # "pending"
     ELSE TRUE
  /\ screen' = [name |-> "analytics",
                timeRange |-> DefaultTimeRange,
                loading |-> TRUE,
                analytics |-> [m \in MetricNames |-> <<>>],
                startDate |-> today - DefaultTimeRange,
                endDate |-> today,
                promises |-> [m \in MetricNames |-> Pending],
                all |-> "pending"]
  /\ lastCall' = Void("fetchAnalytics")
  /\ previous' = NoCall
  /\ log_args' = NoArgs
  /\ UNCHANGED <<today, users, items, item_views, favorites, messages, reports>>
  /\ UNCHANGED <<auth_uid, admin_logs, admin_settings>>

\* <option value="7">, "30", "90", "365"
TimeRanges == {7, 30, 90, 365}

\* onChange of the select, which is rendered once loading is false:
\* setTimeRange, whose effect calls fetchAnalytics again: new dates and six
\* new fetches; loading is not set.  (A change is taken once the fetches of
\* the fetchAnalytics before it have completed.)
setTimeRange ==
  /\ screen.name = "analytics"
  /\ ~screen.loading
  /\ \A m \in MetricNames : screen.promises[m].state # "pending"
  /\ \E timeRange \in TimeRanges \ {screen.timeRange} :
       screen' = [screen EXCEPT !.timeRange = timeRange,
                                !.startDate = today - timeRange,
                                !.endDate = today,
                                !.promises = [n \in MetricNames |-> Pending],
                                !.all = "pending"]
  /\ lastCall' = Void("setTimeRange")
  /\ previous' = NoCall
  /\ log_args' = NoArgs
  /\ UNCHANGED <<today, users, items, item_views, favorites, messages, reports>>
  /\ UNCHANGED <<auth_uid, admin_logs, admin_settings>>

\* setAnalytics({...}): the values of the six fetches
AllSettled(promises, analytics) == [m \in MetricNames |-> promises[m].value]

\* one fetch completes: it resolves with its rows, or its query fails and it
\* throws (fetchDailyActivity has no query).  Promise.all rejects with the
\* first fetch that throws: the catch logs it and loading becomes false; it
\* resolves when the six have resolved: setAnalytics, loading becomes false
SettleFetch ==
  /\ screen.name = "analytics"
  /\ \E m \in MetricNames, ok \in BOOLEAN :
       /\ screen.promises[m].state = "pending"
       /\ m = "dailyActivity" => ok
       /\ \E value \in FetchResults(m, screen.startDate, screen.endDate) :
            LET promises == [screen.promises EXCEPT
                               ![m] = IF ok THEN [state |-> "fulfilled", value |-> value]
                                      ELSE [state |-> "rejected", value |-> <<>>]]
                resolved == \A n \in MetricNames : promises[n].state = "fulfilled"
                rejected == screen.all = "pending" /\ ~ok
            IN  screen' = [screen EXCEPT
                             !.promises = promises,
                             !.all = IF rejected THEN "rejected"
                                     ELSE IF resolved THEN "fulfilled" ELSE @,
                             !.analytics = IF resolved
                                           THEN AllSettled(promises, screen.analytics)
                                           ELSE @,
                             !.loading = IF rejected \/ resolved
                                         THEN LoadingAfterFetch(resolved)
                                         ELSE @]
  /\ lastCall' = Void("settle")
  /\ previous' = NoCall
  /\ log_args' = NoArgs
  /\ UNCHANGED <<today, users, items, item_views, favorites, messages, reports>>
  /\ UNCHANGED <<auth_uid, admin_logs, admin_settings>>

(***************************************************************************)
(* The dashboard (AdminDashboard).                                         *)
(***************************************************************************)
\* the counting queries of fetchDashboardData, in the order of Promise.all
DashboardQueries ==
  {"users", "items", "messages", "reports", "item_views", "favorites",
   "newUsers", "newItems"}

\* the counters each query feeds
CountersOf(query) ==
  IF query = "users" THEN {"totalUsers"}
  ELSE IF query = "items" THEN {"totalItems", "availableItems"}
  ELSE IF query = "messages" THEN {"totalMessages"}
  ELSE IF query = "reports" THEN {"pendingReports"}
  ELSE IF query = "item_views" THEN {"totalViews"}
  ELSE IF query = "favorites" THEN {"totalFavorites"}
  ELSE IF query = "newUsers" THEN {"newUsersToday"}
  ELSE {"newItemsToday"}

\* useState<DashboardStats>({ totalUsers: 0, ... })
InitialStats ==
  [totalUsers |-> 0, totalItems |-> 0, availableItems |-> 0, totalMessages |-> 0,
   pendingReports |-> 0, totalViews |-> 0, totalFavorites |-> 0,
   newUsersToday |-> 0, newItemsToday |-> 0]

\* the count (or the length of the filtered data) of a result: <<n>>, or
\* <<>> (null, undefined) when the query failed
QueryResult(failed, query, n) == IF query \in failed THEN Absent ELSE Some(n)

\* result.count || 0
OrZero(result) == IF result = Absent THEN 0 ELSE result[1]

\* useState: the stats at 0, loading true; useEffect starts
\* fetchDashboardData
MountAdminDashboard ==
  /\ screen = NoScreen
  /\ screen' = [name |-> "dashboard", loading |-> TRUE, errors |-> {},
                stats |-> InitialStats]
  /\ lastCall' = Void("mount_admin_dashboard")
  /\ previous' = NoCall
  /\ log_args' = NoArgs
  /\ UNCHANGED <<today, users, items, item_views, favorites, messages, reports>>
  /\ UNCHANGED <<auth_uid, admin_logs, admin_settings>>

\* fetchDashboardData, from the settled Promise.all on: the eight queries
\* have resolved, each with its count or with an error, which is not read;
\* setStats with count || 0, then setLoading(false).
\* (recentActivity, which feeds no counter, is left out.)
fetchDashboardData ==
  /\ screen.name = "dashboard"
  /\ screen.loading
  /\ \E failed \in SUBSET DashboardQueries :
       /\ Cardinality(failed) <= MaxFailedQueries
       /\ LET Result(query, n) == OrZero(QueryResult(failed, query, n))
          IN  screen' =
                [name |-> "dashboard",
                 loading |-> LoadingAfterFetch(failed = {}),
                 errors |-> failed,
                 stats |->
                   [totalUsers |-> Result("users", Cardinality(DOMAIN users)),
                    totalItems |-> Result("items", CountRows(items)),
                    availableItems |->
                      Result("items",
                             SumCopies({r \in BagToSet(items) : r.is_available}, items)),
                    totalMessages |-> Result("messages", messages),
                    pendingReports |-> Result("reports", PendingReports),
                    totalViews |-> Result("item_views", CountRows(item_views)),
                    totalFavorites |-> Result("favorites", favorites),
                    newUsersToday |-> Result("newUsers", NewUsersSince(today)),
                    newItemsToday |-> Result("newItems", CountSince(items, today))]]
  /\ lastCall' = Void("fetchDashboardData")
  /\ previous' = NoCall
  /\ log_args' = NoArgs
  /\ UNCHANGED <<today, users, items, item_views, favorites, messages, reports>>
  /\ UNCHANGED <<auth_uid, admin_logs, admin_settings>>

\* a card of the stats grid: <p>{stats.totalUsers}</p>, ...
DashboardCard(counter) == [shown |-> "count", value |-> screen.stats[counter]]

(***************************************************************************)
(* admin_settings                                                          *)
(***************************************************************************)
\* INSERT INTO public.admin_settings (key, value, description) VALUES ...
DefaultSettings ==
  <<[key |-> "site_name", value |-> "\"OpenCycle\""],
    [key |-> "allow_registration", value |-> "true"],
    [key |-> "maintenance_mode", value |-> "false"],
    [key |-> "max_items_per_user", value |-> "50"],
    [key |-> "max_image_size", value |-> "5"]>>

\* the rows of the VALUES list the model runs with
DefaultRows == SubSeq(DefaultSettings, 1, NumSettings)

SettingKeys == {DefaultRows[i].key : i \in 1..Len(DefaultRows)} \cup {"theme"}

\* the values an administrator writes
SettingValues == {"true", "\"Swap\""}

RowsOfKey(table, key) == {r \in BagToSet(table) : r.key = key}

InsertOnConflictDoNothing_doUpdate(table, row) ==
  LET Others(r) == r.key # row.key
  IN  BagWhere(table, Others) (+) SetToBag({row})

\* INSERT ... ON CONFLICT (key) DO NOTHING, for one row of the VALUES list
InsertOnConflictDoNothing(table, row) ==
  IF RowsOfKey(table, row.key) # {} THEN table ELSE table (+) SetToBag({row})

RECURSIVE InsertAll(_, _)
\* the rows of the VALUES list, one after the other
InsertAll(table, rows) ==
  IF rows = <<>> THEN table
  ELSE InsertAll(InsertOnConflictDoNothing(table, Head(rows)), Tail(rows))

\* the statement that inserts the default settings, run by the migration
InsertDefaultSettings ==
  /\ admin_settings' = InsertAll(admin_settings, DefaultRows)
  /\ lastCall' = Void("insert_default_settings")
  /\ previous' = NoCall
  /\ log_args' = NoArgs
  /\ UNCHANGED <<today, users, items, item_views, favorites, messages, reports>>
  /\ UNCHANGED <<auth_uid, admin_logs, screen>>

\* a write of the signed-in user on admin_settings through the API, under
\* the policy "Only admins can modify settings" (FOR ALL, USING is_admin):
\* an INSERT of a caller who is no administrator is refused, as is one of a
\* key that exists (key text UNIQUE); an UPDATE or DELETE of a caller who is
\* no administrator sees no row
WriteSetting ==
  /\ auth_uid # NULL
  /\ \E key \in SettingKeys, value \in SettingValues,
        command \in {"INSERT", "UPDATE", "DELETE"} :
       LET row == [key |-> key, value |-> value]
           Others(r) == r.key # key
           err == IF command # "INSERT" THEN "ok"
                  ELSE IF ~is_admin THEN "row_level_security_violation"
                  ELSE IF RowsOfKey(admin_settings, key) # {} THEN "unique_violation"
                  ELSE "ok"
       IN  /\ lastCall' = Response(command, 0, err, NoRows)
           /\ admin_settings' =
                IF err # "ok" \/ ~is_admin THEN admin_settings
                ELSE IF command = "INSERT" THEN admin_settings (+) SetToBag({row})
                ELSE IF command = "DELETE" THEN BagWhere(admin_settings, Others)
                ELSE IF RowsOfKey(admin_settings, key) = {} THEN admin_settings
                ELSE BagWhere(admin_settings, Others) (+) SetToBag({row})
  /\ previous' = NoCall
  /\ log_args' = NoArgs
  /\ UNCHANGED <<today, users, items, item_views, favorites, messages, reports>>
  /\ UNCHANGED <<auth_uid, admin_logs, screen>>

\* SELECT * FROM admin_settings through the API: the policy "Only admins can
\* view settings" (and the USING of "Only admins can modify settings", FOR
\* ALL) hides every row from a caller who is no administrator
SelectSettings ==
  /\ auth_uid # NULL
  /\ lastCall' = Response("select_admin_settings", 0, "ok",
                          IF is_admin THEN admin_settings ELSE EmptyBag)
  /\ previous' = NoCall
  /\ NoAdminWrite
  /\ UNCHANGED <<today, users, items, item_views, favorites, messages, reports>>

(***************************************************************************)
(* The item management screen (ItemManagement).                            *)
(*                                                                         *)
(* Its state: loading, the items it holds as a function from item id to    *)
(* is_available, actionLoading (NULL or an item id) and the requests in    *)
(* flight, a bag of [op, itemId, currentStatus].  A handler runs up to its *)
(* await in one step and from the settled request to its end in another.   *)
(* The stored items of this screen's specification carry their id.         *)
(***************************************************************************)
ItemIds == 1..MaxScreenItems

\* the rows of items_with_stats as a function from id to is_available
StoredItems ==
  LET ids == {r.id : r \in BagToSet(items)}
  IN  [id \in ids |-> (CHOOSE r \in BagToSet(items) : r.id = id).is_available]

\* useState: items [], loading true, actionLoading null; useEffect starts
\* fetchItems
MountItemManagement ==
  /\ screen = NoScreen
  /\ screen' = [name |-> "items", loading |-> TRUE, items |-> <<>>,
                actionLoading |-> NULL, requests |-> EmptyBag]
  /\ lastCall' = Void("mount_item_management")
  /\ previous' = NoCall
  /\ log_args' = NoArgs
  /\ UNCHANGED <<today, users, items, item_views, favorites, messages, reports>>
  /\ UNCHANGED <<auth_uid, admin_logs, admin_settings>>

\* fetchItems, from the settled select on: setItems(data || []) when it
\* succeeded, the catch when it failed, setLoading(false) in both cases
fetchItems ==
  /\ screen.name = "items"
  /\ screen.loading
  /\ \E ok \in BOOLEAN :
       /\ screen' = [screen EXCEPT !.items = IF ok THEN StoredItems ELSE @,
                                   !.loading = LoadingAfterFetch(ok)]
       /\ lastCall' = Response("fetchItems", 0,
                               IF ok THEN "ok" ELSE "storage_error", NoRows)
  /\ previous' = NoCall
  /\ log_args' = NoArgs
  /\ UNCHANGED <<today, users, items, item_views, favorites, messages, reports>>
  /\ UNCHANGED <<auth_uid, admin_logs, admin_settings>>

\* a button of the row of item itemId can be clicked: the table is rendered,
\* the row is in the list and the button is not disabled
\* (disabled={actionLoading === item.id})
ItemButtonEnabled(itemId) ==
  /\ screen.name = "items"
  /\ ~screen.loading
  /\ itemId \in DOMAIN screen.items
  /\ screen.actionLoading # itemId

\* a handler up to its await: setActionLoading(itemId) and the request
StartItemRequest(op, itemId, currentStatus) ==
  /\ BagCardinality(screen.requests) < MaxInFlight
  /\ screen' = [screen EXCEPT
                  !.actionLoading = itemId,
                  !.requests = @ (+) SetToBag({[op |-> op, itemId |-> itemId,
                                                currentStatus |-> currentStatus]})]
  /\ lastCall' = Response(op, 0, "pending", NoRows)
  /\ previous' = NoCall
  /\ log_args' = NoArgs
  /\ UNCHANGED <<today, users, items, item_views, favorites, messages, reports>>
  /\ UNCHANGED <<auth_uid, admin_logs, admin_settings>>

\* onClick={() => handleToggleAvailability(item.id, item.is_available)}
handleToggleAvailability ==
  \E itemId \in ItemIds :
    /\ ItemButtonEnabled(itemId)
    /\ StartItemRequest("handleToggleAvailability", itemId, screen.items[itemId])

\* onClick={() => handleDeleteItem(item.id)}: nothing happens when the
\* confirm dialog is cancelled
handleDeleteItem ==
  \E itemId \in ItemIds, confirmed \in BOOLEAN :
    /\ ItemButtonEnabled(itemId)
    /\ IF confirmed
       THEN StartItemRequest("handleDeleteItem", itemId, screen.items[itemId])
       ELSE /\ lastCall' = Response("handleDeleteItem", 0, "cancelled", NoRows)
            /\ previous' = NoCall
            /\ NoAdminWrite
            /\ UNCHANGED <<today, users, items, item_views, favorites, messages,
                           reports>>

ToggleLocal_flip(list, itemId, currentStatus) ==
  [id \in DOMAIN list |-> IF id = itemId THEN ~list[id] ELSE list[id]]

\* setItems(prev => prev.map(item => item.id === itemId
\*   ? { ...item, is_available: !currentStatus } : item))
ToggleLocal(list, itemId, currentStatus) ==
  [id \in DOMAIN list |-> IF id = itemId THEN ~currentStatus ELSE list[id]]

\* setItems(prev => prev.filter(item => item.id !== itemId))
DeleteLocal(list, itemId) == [id \in DOMAIN list \ {itemId} |-> list[id]]

\* a request in flight settles: the storage write when it succeeds (ok),
\* then the handler from its await to its end: the change of the list when
\* the request succeeded, the catch when it failed, setActionLoading(null)
\* in both cases
SettleItemRequest ==
  /\ screen.name = "items"
  /\ \E request \in BagToSet(screen.requests), ok \in BOOLEAN :
       LET itemId == request.itemId
           toggle == request.op = "handleToggleAvailability"
           SetAvailable(r) ==
             IF r.id = itemId THEN [r EXCEPT !.is_available = ~request.currentStatus]
             ELSE r
           Others(r) == r.id # itemId
       IN  /\ items' = IF ~ok THEN items
                       ELSE IF toggle THEN BagOfAll(SetAvailable, items)
                       ELSE BagWhere(items, Others)
           /\ screen' = [screen EXCEPT
                           !.items =
                              IF ~ok THEN @
                              ELSE IF toggle
                              THEN ToggleLocal(@, itemId, request.currentStatus)
                              ELSE DeleteLocal(@, itemId),
                           !.actionLoading = NULL,
                           !.requests = @ (-) SetToBag({request})]
           /\ lastCall' = Response("settled", 0,
                                   IF ok THEN "ok" ELSE "storage_error",
                                   <<request>>)
  /\ previous' = NoCall
  /\ log_args' = NoArgs
  /\ UNCHANGED <<today, users, item_views, favorites, messages, reports>>
  /\ UNCHANGED <<auth_uid, admin_logs, admin_settings>>

(***************************************************************************)
(* The profile page (UserProfile).                                         *)
(*                                                                         *)
(* The stored items of the specifications of the profile page and of the   *)
(* item detail page carry their id and their user_id.  The state of the    *)
(* page: the signed-in user, userItems (the ids of the items it lists),    *)
(* deleteConfirm (NULL or an item id), error, the deletes in flight (a bag *)
(* of item ids), and the state of the profile editor: editing, saving,     *)
(* uploading, selectedFile, previewUrl, formData.avatar_url and the        *)
(* position of the handleSave in progress.                                 *)
(***************************************************************************)
\* every items table with one item of each id, owned by a user of Viewers
OwnedItemTables ==
  {SetToBag({[id |-> id, user_id |-> owner[id], category |-> CategoryNames[1],
              is_available |-> TRUE, created_at |-> 0] : id \in ItemIds}) :
     owner \in [ItemIds -> Viewers]}

\* the ids of the stored items of a user
ItemsOf(userId) == {r.id : r \in {p \in BagToSet(items) : p.user_id = userId}}

NoSave == [at |-> "idle", error |-> "", avatarUrl |-> ""]

\* useState(...) of UserProfile for the signed-in user; the effect starts
\* fetchProfile and fetchUserItems
MountUserProfile ==
  /\ screen = NoScreen
  /\ auth_uid # NULL
  /\ screen' = [name |-> "profile", user |-> auth_uid, fetching |-> TRUE,
                userItems |-> {}, deleteConfirm |-> NULL, error |-> "",
                deletes |-> EmptyBag, editing |-> FALSE, saving |-> FALSE,
                uploading |-> FALSE, selectedFile |-> Absent,
                previewUrl |-> Absent, avatar_url |-> "", save |-> NoSave,
                loading |-> TRUE, profile |-> Absent]
  /\ lastCall' = Void("mount_user_profile")
  /\ previous' = NoCall
  /\ log_args' = NoArgs
  /\ UNCHANGED <<today, users, items, item_views, favorites, messages, reports>>
  /\ UNCHANGED <<auth_uid, admin_logs, admin_settings>>

\* fetchUserItems, from the settled select on: setUserItems(data || []) when
\* it succeeded, the catch when it failed
fetchUserItems ==
  /\ screen.name = "profile"
  /\ screen.fetching
  /\ \E ok \in BOOLEAN :
       /\ screen' = [screen EXCEPT
                       !.userItems = IF ok THEN ItemsOf(screen.user) ELSE @,
                       !.fetching = FALSE]
       /\ lastCall' = Response("fetchUserItems", 0,
                               IF ok THEN "ok" ELSE "storage_error", NoRows)
  /\ previous' = NoCall
  /\ log_args' = NoArgs
  /\ UNCHANGED <<today, users, items, item_views, favorites, messages, reports>>
  /\ UNCHANGED <<auth_uid, admin_logs, admin_settings>>

DeleteConfirmed_any(deleteConfirm, itemId) == deleteConfirm # NULL

\* if (deleteConfirm !== itemId) { setDeleteConfirm(itemId); return; }
DeleteConfirmed(deleteConfirm, itemId) == deleteConfirm = itemId

\* handleDeleteItem(itemId) of the profile page, up to its await: the trash
\* button of an item and the confirm button of the item in confirmation
\* both call it
UserProfile_handleDeleteItem ==
  /\ screen.name = "profile"
  /\ \E itemId \in screen.userItems :
       IF DeleteConfirmed(screen.deleteConfirm, itemId)
       THEN /\ BagCardinality(screen.deletes) < MaxInFlight
            /\ screen' = [screen EXCEPT !.deletes = @ (+) SetToBag({itemId})]
            /\ lastCall' = Response("UserProfile.handleDeleteItem", 0, "pending",
                                    <<itemId>>)
       ELSE /\ screen' = [screen EXCEPT !.deleteConfirm = itemId]
            /\ lastCall' = Response("UserProfile.handleDeleteItem", 0, "confirm",
                                    <<itemId>>)
  /\ previous' = NoCall
  /\ log_args' = NoArgs
  /\ UNCHANGED <<today, users, items, item_views, favorites, messages, reports>>
  /\ UNCHANGED <<auth_uid, admin_logs, admin_settings>>

\* the cancel button of the item in confirmation: setDeleteConfirm(null)
CancelDeleteConfirm ==
  /\ screen.name = "profile"
  /\ screen.deleteConfirm \in screen.userItems
  /\ screen' = [screen EXCEPT !.deleteConfirm = NULL]
  /\ lastCall' = Void("setDeleteConfirm")
  /\ previous' = NoCall
  /\ log_args' = NoArgs
  /\ UNCHANGED <<today, users, items, item_views, favorites, messages, reports>>
  /\ UNCHANGED <<auth_uid, admin_logs, admin_settings>>

\* a delete in flight settles: the storage delete when it succeeds (ok),
\* then handleDeleteItem from its await on: the item leaves userItems and
\* deleteConfirm is set to null, or the catch sets the error
UserProfile_SettleDelete ==
  /\ screen.name = "profile"
  /\ \E itemId \in BagToSet(screen.deletes), ok \in BOOLEAN :
       LET Others(r) == r.id # itemId
       IN  /\ items' = IF ok THEN BagWhere(items, Others) ELSE items
           /\ screen' = [screen EXCEPT
                           !.userItems = IF ok THEN @ \ {itemId} ELSE @,
                           !.deleteConfirm = IF ok THEN NULL ELSE @,
                           !.error = IF ok THEN @ ELSE "Failed to delete item",
                           !.deletes = @ (-) SetToBag({itemId})]
           /\ lastCall' = Response("UserProfile.delete_settled", 0,
                                   IF ok THEN "ok" ELSE "storage_error",
                                   <<itemId>>)
  /\ previous' = NoCall
  /\ log_args' = NoArgs
  /\ UNCHANGED <<today, users, item_views, favorites, messages, reports>>
  /\ UNCHANGED <<auth_uid, admin_logs, admin_settings>>

(***************************************************************************)
(* The item detail page (ItemDetailPage).                                  *)
(*                                                                         *)
(* Its state: the id of the route, the item it fetched (<<>> or <<row>>),  *)
(* loading, deleteConfirm, deleting, error, the location (the page itself  *)
(* or /dashboard) and the delete in flight (<<>> or <<item id>>).          *)
(***************************************************************************)
\* useParams / useState of ItemDetailPage; the effect starts fetchItem
MountItemDetailPage ==
  /\ screen = NoScreen
  /\ \E id \in ItemIds :
       screen' = [name |-> "detail", id |-> id, item |-> Absent, loading |-> TRUE,
                  deleteConfirm |-> FALSE, deleting |-> FALSE, error |-> "",
                  location |-> "item", request |-> Absent]
  /\ lastCall' = Void("mount_item_detail_page")
  /\ previous' = NoCall
  /\ log_args' = NoArgs
  /\ UNCHANGED <<today, users, items, item_views, favorites, messages, reports>>
  /\ UNCHANGED <<auth_uid, admin_logs, admin_settings>>

\* fetchItem, from the settled select on: setItem(data) when it succeeded,
\* setError('Item not found') when it failed or found no row,
\* setLoading(false) in both cases
fetchItem ==
  /\ screen.name = "detail"
  /\ screen.loading
  /\ \E ok \in BOOLEAN :
       LET found == {r \in BagToSet(items) : r.id = screen.id}
           row == CHOOSE r \in found : TRUE
       IN  /\ screen' = [screen EXCEPT
                           !.item = IF ok /\ found # {}
                                    THEN Some([id |-> row.id, user_id |-> row.user_id])
                                    ELSE @,
                           !.error = IF ok /\ found # {} THEN @ ELSE "Item not found",
                           !.loading = FALSE]
           /\ lastCall' = Response("fetchItem", 0,
                                   IF ok /\ found # {} THEN "ok" ELSE "storage_error",
                                   NoRows)
  /\ previous' = NoCall
  /\ log_args' = NoArgs
  /\ UNCHANGED <<today, users, items, item_views, favorites, messages, reports>>
  /\ UNCHANGED <<auth_uid, admin_logs, admin_settings>>

\* const isOwner = user && user.id === item.user_id
isOwner == screen.item # Absent /\ auth_uid # NULL /\ auth_uid = screen.item[1].user_id

\* the owner's Delete Item button, setDeleteConfirm(true), and the Cancel
\* button of the confirmation, setDeleteConfirm(false)
setDeleteConfirm ==
  /\ screen.name = "detail"
  /\ screen.location = "item"
  /\ isOwner
  /\ screen' = [screen EXCEPT !.deleteConfirm = ~@]
  /\ lastCall' = Void("setDeleteConfirm")
  /\ previous' = NoCall
  /\ log_args' = NoArgs
  /\ UNCHANGED <<today, users, items, item_views, favorites, messages, reports>>
  /\ UNCHANGED <<auth_uid, admin_logs, admin_settings>>

MayDelete_anyUser(user, item) == user # NULL /\ item # Absent

\* if (!user || !item || user.id !== item.user_id) return;
MayDelete(user, item) == user # NULL /\ item # Absent /\ user = item[1].user_id

\* handleDeleteItem() of the item detail page, up to its await.  The
\* confirmation's Delete Item button (disabled={deleting}) calls it; it is
\* applied in every state of the page, so that its own guards decide
ItemDetailPage_handleDeleteItem ==
  /\ screen.name = "detail"
  /\ screen.location = "item"
  /\ ~screen.loading
  /\ ~screen.deleting
  /\ IF ~screen.deleteConfirm
     THEN /\ screen' = [screen EXCEPT !.deleteConfirm = TRUE]
          /\ lastCall' = Response("ItemDetailPage.handleDeleteItem", 0, "confirm",
                                  NoRows)
     ELSE IF ~MayDelete(auth_uid, screen.item)
     THEN /\ screen' = screen
          /\ lastCall' = Response("ItemDetailPage.handleDeleteItem", 0, "returned",
                                  NoRows)
     ELSE /\ screen' = [screen EXCEPT !.deleting = TRUE,
                                      !.request = Some(screen.item[1].id)]
          /\ lastCall' = Response("ItemDetailPage.handleDeleteItem", 0, "pending",
                                  NoRows)
  /\ previous' = NoCall
  /\ log_args' = NoArgs
  /\ UNCHANGED <<today, users, items, item_views, favorites, messages, reports>>
  /\ UNCHANGED <<auth_uid, admin_logs, admin_settings>>

(***************************************************************************)
(* The profile editor of UserProfile: avatar selection and save.           *)
(***************************************************************************)
\* a MIME type is the sequence of its characters
ImagePrefix == <<"i", "m", "a", "g", "e", "/">>

\* String.prototype.startsWith
StartsWith(s, prefix) ==
  /\ Len(s) >= Len(prefix)
  /\ SubSeq(s, 1, Len(prefix)) = prefix

\* the size limit of handleFileSelect, in bytes
AvatarLimit == 2 * 1024 * 1024

\* the types of the files offered to the file input: image/png, text/plain
\* and a type that names no subtype
FileTypes ==
  { ImagePrefix \o <<"p", "n", "g">>,
    <<"t", "e", "x", "t", "/", "p", "l", "a", "i", "n">>,
    <<"i", "m", "a", "g", "e">> }

\* the sizes of the files offered to the file input, around the limit
FileSizes == {AvatarLimit - 1, AvatarLimit, AvatarLimit + 1}

Files == [type : FileTypes, size : FileSizes]

\* the avatar_url values of a users row: none, a stored one, an uploaded one
StoredAvatar == "https://avatars/old"

UploadedAvatar == "https://avatars/new"

\* the errors handleFileSelect reports
NotAnImage == "Please select an image file"

TooLarge == "Avatar image must be less than 2MB"

\* the check of handleFileSelect: the error it sets, "" when the file passes
FileError(file) ==
  IF ~StartsWith(file.type, ImagePrefix) THEN NotAnImage
  ELSE IF file.size > AvatarLimit THEN TooLarge
  ELSE ""

\* the page shows the profile: loading is over and a profile was fetched
ProfileShown ==
  /\ screen.name = "profile"
  /\ ~screen.loading
  /\ screen.profile # Absent

\* the steps of the editor leave the tables but users alone
EditorFrame ==
  /\ previous' = NoCall
  /\ log_args' = NoArgs
  /\ UNCHANGED <<today, items, item_views, favorites, messages, reports>>
  /\ UNCHANGED <<auth_uid, admin_logs, admin_settings>>

\* fetchProfile, from the settled select on: setProfile and setFormData when
\* the row came back, the catch when it did not; finally setLoading(false)
fetchProfile ==
  /\ screen.name = "profile"
  /\ screen.loading
  /\ \E ok \in BOOLEAN :
       /\ screen' = [screen EXCEPT
                       !.profile = IF ok THEN Some(users[screen.user]) ELSE @,
                       !.avatar_url = IF ok THEN users[screen.user].avatar_url
                                           ELSE @,
                       !.loading = FALSE]
       /\ lastCall' = Response("fetchProfile", 0,
                               IF ok THEN "ok" ELSE "storage_error", NoRows)
  /\ users' = users
  /\ EditorFrame

\* the Edit Profile / Cancel button of the header: setEditing(!editing)
setEditing ==
  /\ ProfileShown
  /\ screen' = [screen EXCEPT !.editing = ~@]
  /\ lastCall' = Void("setEditing")
  /\ users' = users
  /\ EditorFrame

\* handleFileSelect for a file chosen in the file input of the editing form
handleFileSelect ==
  /\ ProfileShown
  /\ screen.editing
  /\ \E file \in Files :
       LET err == FileError(file)
       IN  /\ screen' = IF err # ""
                          THEN [screen EXCEPT !.error = err]
                          ELSE [screen EXCEPT !.selectedFile = Some(file),
                                              !.error = "",
                                              !.previewUrl = Some(file)]
           /\ lastCall' = Response("handleFileSelect", 0,
                                   IF err # "" THEN "rejected" ELSE "accepted",
                                   <<file>>)
  /\ users' = users
  /\ EditorFrame

\* removeAvatar, the button next to the preview
removeAvatar ==
  /\ ProfileShown
  /\ screen.editing
  /\ screen.previewUrl # Absent \/ screen.selectedFile # Absent
  /\ screen' = [screen EXCEPT !.selectedFile = Absent,
                              !.previewUrl = Absent,
                              !.avatar_url = ""]
  /\ lastCall' = Void("removeAvatar")
  /\ users' = users
  /\ EditorFrame

\* handleCancel, the Cancel button of the form
handleCancel ==
  /\ ProfileShown
  /\ screen.editing
  /\ screen' = [screen EXCEPT !.avatar_url = screen.profile[1].avatar_url,
                              !.editing = FALSE,
                              !.selectedFile = Absent,
                              !.previewUrl = Absent,
                              !.error = ""]
  /\ lastCall' = Void("handleCancel")
  /\ users' = users
  /\ EditorFrame

\* handleSave up to its first await: setSaving(true), setError(''), then the
\* upload of the selected file (uploadAvatar: setUploading(true)) or, with no
\* file selected, the update. The handler keeps the error, selectedFile and
\* formData of the render it was created in.
handleSave ==
  /\ ProfileShown
  /\ screen.editing
  /\ ~(screen.saving \/ screen.uploading)
  /\ screen.save.at = "idle"
  /\ screen' = [screen EXCEPT
                  !.saving = TRUE,
                  !.error = "",
                  !.uploading = screen.selectedFile # Absent,
                  !.save = [at |-> IF screen.selectedFile # Absent
                                     THEN "uploading" ELSE "updating",
                            error |-> screen.error,
                            avatarUrl |-> screen.avatar_url]]
  /\ lastCall' = Response("handleSave", 0, "pending", NoRows)
  /\ users' = users
  /\ EditorFrame

\* what handleSave does once uploadAvatar returned null: with the handler's
\* error non-empty it stops, otherwise it goes on to the update
AfterFailedUpload(closureError) ==
  IF closureError # "" THEN "idle" ELSE "updating"

\* uploadAvatar from the settled uploadFile on, and handleSave up to its next
\* await: the public URL when the upload succeeded; when it failed the catch
\* of uploadAvatar sets the error, its finally ends uploading, null comes back
SettleUpload ==
  /\ screen.name = "profile"
  /\ screen.save.at = "uploading"
  /\ \E ok \in BOOLEAN :
       LET next == IF ok THEN "updating"
                   ELSE AfterFailedUpload(screen.save.error)
       IN  /\ screen' = [screen EXCEPT
                           !.uploading = FALSE,
                           !.error = IF ok THEN @ ELSE "Upload failed",
                           !.saving = IF next = "idle" THEN FALSE ELSE @,
                           !.save = [@ EXCEPT
                                       !.at = next,
                                       !.avatarUrl = IF ok THEN UploadedAvatar
                                                     ELSE @]]
           /\ lastCall' = Response("upload_settled", 0,
                                   IF ok THEN "ok" ELSE "storage_error",
                                   NoRows)
  /\ users' = users
  /\ EditorFrame

\* handleSave from the settled update on: the row is written and the form is
\* left when it succeeded, the catch sets the error when it failed; finally
\* setSaving(false)
SettleUpdate ==
  /\ screen.name = "profile"
  /\ screen.save.at = "updating"
  /\ \E ok \in BOOLEAN :
       LET row == [users[screen.user] EXCEPT
                     !.avatar_url = screen.save.avatarUrl]
       IN  /\ users' = IF ok THEN [users EXCEPT ![screen.user] = row]
                       ELSE users
           /\ screen' = IF ok
                          THEN [screen EXCEPT !.profile = Some(row),
                                              !.avatar_url = row.avatar_url,
                                              !.editing = FALSE,
                                              !.selectedFile = Absent,
                                              !.previewUrl = Absent,
                                              !.saving = FALSE,
                                              !.save = NoSave]
                          ELSE [screen EXCEPT !.error = "update_error",
                                              !.saving = FALSE,
                                              !.save = NoSave]
           /\ lastCall' = Response("update_settled", 0,
                                   IF ok THEN "ok" ELSE "storage_error",
                                   <<row>>)
  /\ EditorFrame

\* the delete in flight settles: the storage delete when it succeeds (ok),
\* then handleDeleteItem from its await on: navigate('/dashboard'), or the
\* catch sets the error; setDeleting(false) in both cases
ItemDetailPage_SettleDelete ==
  /\ screen.name = "detail"
  /\ screen.request # Absent
  /\ \E ok \in BOOLEAN :
       LET Others(r) == r.id # screen.request[1]
       IN  /\ items' = IF ok THEN BagWhere(items, Others) ELSE items
           /\ screen' = [screen EXCEPT
                           !.location = IF ok THEN "dashboard" ELSE @,
                           !.error = IF ok THEN @ ELSE "Failed to delete item",
                           !.deleting = FALSE,
                           !.request = Absent]
           /\ lastCall' = Response("ItemDetailPage.delete_settled", 0,
                                   IF ok THEN "ok" ELSE "storage_error", NoRows)
  /\ previous' = NoCall
  /\ log_args' = NoArgs
  /\ UNCHANGED <<today, users, item_views, favorites, messages, reports>>
  /\ UNCHANGED <<auth_uid, admin_logs, admin_settings>>

Init ==
  /\ today = 0
  /\ users = <<>>
  /\ items = EmptyBag
  /\ item_views = EmptyBag
  /\ favorites = 0
  /\ messages = 0
  /\ reports = EmptyBag
  /\ lastCall = NoCall
  /\ previous = NoCall
  /\ auth_uid = NULL
  /\ log_args = NoArgs
  /\ admin_logs = <<>>
  /\ admin_settings = EmptyBag
  /\ screen = NoScreen

GrowthNext ==
  \/ InsertUser(UserIds)
  \/ handleDeleteUser
  \/ NextDay
  \/ CallUserGrowth

SpecGrowth == Init /\ [][GrowthNext]_vars

\* the rows of all the tables together
TotalRows ==
  Cardinality(DOMAIN users) + BagCardinality(items) + BagCardinality(item_views)
    + favorites + messages + BagCardinality(reports)

\* the tables stop growing at MaxRows rows (a favorite toggled on may be one
\* more); a removal is always possible
SnapshotNext ==
  \/ TotalRows < MaxRows /\ InsertUser(Viewers)
  \/ TotalRows < MaxRows /\ InsertItem({CategoryNames[1]})
  \/ TotalRows < MaxRows /\ recordView(Viewers)
  \/ TotalRows <= MaxRows /\ handleFavoriteToggle
  \/ TotalRows < MaxRows /\ InsertMessage
  \/ TotalRows < MaxRows /\ InsertReport
  \/ handleDeleteUser
  \/ UpdateStoredItem
  \/ DeleteStoredItem
  \/ UpdateStoredReport
  \/ today < MaxSnapshotDay /\ NextDay
  \/ CallPlatformAnalytics

SpecSnapshot == Init /\ [][SnapshotNext]_vars

\* the rows an items table can hold on day 0
ItemRows == [category : Categories, is_available : BOOLEAN, created_at : {0}]

RECURSIVE ItemTables(_)
\* every items table of at most n rows
ItemTables(n) ==
  IF n = 0 THEN {EmptyBag}
  ELSE LET smaller == ItemTables(n - 1)
       IN  smaller \cup {b (+) SetToBag({r}) : b \in smaller, r \in ItemRows}

\* get_category_distribution reads the items table alone: it is called on
\* every items table within the bounds
CategoryInit ==
  /\ today = 0
  /\ users = <<>>
  /\ items \in ItemTables(MaxItems)
  /\ item_views = EmptyBag
  /\ favorites = 0
  /\ messages = 0
  /\ reports = EmptyBag
  /\ lastCall = NoCall
  /\ previous = NoCall
  /\ auth_uid = NULL
  /\ log_args = NoArgs
  /\ admin_logs = <<>>
  /\ admin_settings = EmptyBag
  /\ screen = NoScreen

\* one call per drawn table: the function writes nothing, so a second call
\* has the same answers as the first
CategoryNext ==
  /\ lastCall.op = "none"
  /\ CallCategoryDistribution

SpecCategory == CategoryInit /\ [][CategoryNext]_vars

SettingsNext ==
  \/ InsertUser(Viewers)
  \/ handleDeleteUser
  \/ SignIn(Viewers)
  \/ InsertDefaultSettings
  \/ WriteSetting

SpecSettings == Init /\ [][SettingsNext]_vars

\* the reports screen of one administrator, new reports, and the updates of
\* another administrator's screen
ReportsNext ==
  \/ InsertReport
  \/ MountReportsManagement
  \/ fetchReports
  \/ SelectReport
  \/ QuickUpdate
  \/ ModalUpdate
  \/ UpdateNotes
  \/ UpdateStoredReport

SpecReports == Init /\ [][ReportsNext]_vars

\* every users table on Viewers with the rows created from day 0 on
UserTables ==
  UNION {{[u \in S |-> [created_at |-> created[u], email |-> Email(u)]] :
            created \in [S -> 0..MaxDay]} : S \in SUBSET Viewers}

\* the items created today, of one category
AnalyticsItemRows ==
  [category : {CategoryNames[1]}, is_available : BOOLEAN, created_at : {MaxDay}]

RECURSIVE AnalyticsItemTables(_)
AnalyticsItemTables(n) ==
  IF n = 0 THEN {EmptyBag}
  ELSE LET smaller == AnalyticsItemTables(n - 1)
       IN  smaller \cup {b (+) SetToBag({r}) : b \in smaller, r \in AnalyticsItemRows}

\* the analytics screen is opened on day MaxDay, on every users table and
\* items table within the bounds
AnalyticsInit ==
  /\ today = MaxDay
  /\ users \in UserTables
  /\ items \in AnalyticsItemTables(MaxAnalyticsItems)
  /\ item_views = EmptyBag
  /\ favorites = 0
  /\ messages = 0
  /\ reports = EmptyBag
  /\ lastCall = NoCall
  /\ previous = NoCall
  /\ auth_uid = NULL
  /\ log_args = NoArgs
  /\ admin_logs = <<>>
  /\ admin_settings = EmptyBag
  /\ screen = NoScreen

AnalyticsNext ==
  \/ fetchAnalytics
  \/ SettleFetch

SpecAnalytics == AnalyticsInit /\ [][AnalyticsNext]_vars

DashboardNext ==
  \/ TotalRows < MaxDashboardRows /\ InsertUser(Viewers)
  \/ TotalRows < MaxDashboardRows /\ InsertItem({CategoryNames[1]})
  \/ TotalRows < MaxDashboardRows /\ InsertReport
  \/ TotalRows < MaxDashboardRows /\ InsertMessage
  \/ UpdateStoredReport
  \/ UpdateStoredItem
  \/ MountAdminDashboard
  \/ fetchDashboardData

SpecDashboard == Init /\ [][DashboardNext]_vars

\* the users of the access specification: the designated administrator, a
\* plain user, an administrator of the admin subdomain, ...
AuditUsers == 1..MaxAuditUsers

\* sessions and the remote calls of the signed-in user (EXECUTE is granted
\* to authenticated)
AccessNext ==
  \/ InsertUser(AuditUsers)
  \/ handleDeleteUser
  \/ SignIn(AuditUsers)
  \/ ProtectedAdminRoute
  \/ log_admin_action
  \/ SelectAdminLogs
  \/ auth_uid # NULL /\ CallPlatformAnalytics
  \/ auth_uid # NULL /\ CallUserGrowth
  \/ auth_uid # NULL /\ CallCategoryDistribution

SpecAccess == Init /\ [][AccessNext]_vars

\* the rows of the tables the moderation screens write
AuditRows ==
  Cardinality(DOMAIN users) + BagCardinality(items) + BagCardinality(reports)

\* the admin log, the sessions that write it and the moderation writes
AuditNext ==
  \/ AuditRows < MaxAuditRows /\ InsertUser(Viewers)
  \/ AuditRows < MaxAuditRows /\ InsertItem({CategoryNames[1]})
  \/ AuditRows < MaxAuditRows /\ InsertReport
  \/ SignIn(Viewers)
  \/ log_admin_action
  \/ handleDeleteUser
  \/ UpdateStoredItem
  \/ DeleteStoredItem
  \/ UpdateStoredReport

SpecAudit == Init /\ [][AuditNext]_vars

\* the admin logs the policy specification starts with: none, or the row a
\* since deleted administrator logged on day 0
PolicyLogs ==
  {<<>>,
   <<[admin_id |-> NULL, action |-> Some("delete_item"), target_type |-> Absent,
      target_id |-> Absent, details |-> Absent, created_at |-> 0]>>}

\* the database after the migration, with either admin log
PolicyInit ==
  /\ today = 0
  /\ users = <<>>
  /\ items = EmptyBag
  /\ item_views = EmptyBag
  /\ favorites = 0
  /\ messages = 0
  /\ reports = EmptyBag
  /\ lastCall = NoCall
  /\ previous = NoCall
  /\ auth_uid = NULL
  /\ log_args = NoArgs
  /\ admin_logs \in PolicyLogs
  /\ admin_settings = InsertAll(EmptyBag, DefaultRows)
  /\ screen = NoScreen

PolicyUsers == 1..MaxPolicyUsers

\* sessions, changes of email and the statements on the two admin tables
PolicyNext ==
  \/ InsertUser(PolicyUsers)
  \/ SignIn(PolicyUsers)
  \/ UpdateEmail
  \/ SelectAdminLogs
  \/ SelectSettings
  \/ WriteSetting

SpecPolicy == PolicyInit /\ [][PolicyNext]_vars

\* sessions, accounts and the guard of the /admin routes
RouteNext ==
  \/ InsertUser(Viewers)
  \/ UpdateEmail
  \/ handleDeleteUser
  \/ SignIn(Viewers)
  \/ ProtectedAdminRoute

SpecRoute == Init /\ [][RouteNext]_vars

\* the items table the item management screen is opened on: one available
\* item of each id
ItemScreenInit ==
  /\ today = 0
  /\ users = <<>>
  /\ items = SetToBag({[id |-> id, category |-> CategoryNames[1],
                        is_available |-> TRUE, created_at |-> 0] : id \in ItemIds})
  /\ item_views = EmptyBag
  /\ favorites = 0
  /\ messages = 0
  /\ reports = EmptyBag
  /\ lastCall = NoCall
  /\ previous = NoCall
  /\ auth_uid = NULL
  /\ log_args = NoArgs
  /\ admin_logs = <<>>
  /\ admin_settings = EmptyBag
  /\ screen = NoScreen

ItemScreenNext ==
  \/ MountItemManagement
  \/ fetchItems
  \/ handleToggleAvailability
  \/ handleDeleteItem
  \/ SettleItemRequest

SpecItemScreen == ItemScreenInit /\ [][ItemScreenNext]_vars

\* one of the four screens is opened and its fetch settles; on the analytics
\* screen the time range is changed afterwards
LoadingNext ==
  \/ screen = NoScreen /\ fetchAnalytics
  \/ SettleFetch
  \/ setTimeRange
  \/ MountAdminDashboard
  \/ fetchDashboardData
  \/ MountItemManagement
  \/ fetchItems
  \/ MountReportsManagement
  \/ fetchReports

\* every query that was sent settles
SpecLoading ==
  /\ ItemScreenInit
  /\ [][LoadingNext]_vars
  /\ WF_vars(SettleFetch)
  /\ WF_vars(fetchDashboardData)
  /\ WF_vars(fetchItems)
  /\ WF_vars(fetchReports)

\* the users of Viewers, each signed up on day 0, and their items
OwnedInit ==
  /\ today = 0
  /\ users = [u \in Viewers |-> [created_at |-> 0, email |-> Email(u)]]
  /\ items \in OwnedItemTables
  /\ item_views = EmptyBag
  /\ favorites = 0
  /\ messages = 0
  /\ reports = EmptyBag
  /\ lastCall = NoCall
  /\ previous = NoCall
  /\ auth_uid = NULL
  /\ log_args = NoArgs
  /\ admin_logs = <<>>
  /\ admin_settings = EmptyBag
  /\ screen = NoScreen

\* a user signs in, opens the profile page and deletes items
ProfileItemsNext ==
  \/ screen = NoScreen /\ SignIn(Viewers)
  \/ MountUserProfile
  \/ fetchUserItems
  \/ UserProfile_handleDeleteItem
  \/ CancelDeleteConfirm
  \/ UserProfile_SettleDelete

SpecProfileItems == OwnedInit /\ [][ProfileItemsNext]_vars

\* both users have a profile row, with or without a stored avatar
EditorInit ==
  /\ today = 0
  /\ \E a \in {"", StoredAvatar} :
       users = [u \in Viewers |->
                  [created_at |-> 0, email |-> Email(u), avatar_url |-> a]]
  /\ items = EmptyBag
  /\ item_views = EmptyBag
  /\ favorites = 0
  /\ messages = 0
  /\ reports = EmptyBag
  /\ lastCall = NoCall
  /\ previous = NoCall
  /\ auth_uid = NULL
  /\ log_args = NoArgs
  /\ admin_logs = <<>>
  /\ admin_settings = EmptyBag
  /\ screen = NoScreen

\* a user signs in, opens the profile page and edits the profile
ProfileEditorNext ==
  \/ screen = NoScreen /\ SignIn(Viewers)
  \/ MountUserProfile
  \/ fetchProfile
  \/ setEditing
  \/ handleFileSelect
  \/ removeAvatar
  \/ handleCancel
  \/ handleSave
  \/ SettleUpload
  \/ SettleUpdate

SpecProfileEditor == EditorInit /\ [][ProfileEditorNext]_vars

\* a visitor, signed in or not, opens the page of an item
ItemDetailNext ==
  \/ screen = NoScreen /\ SignIn(Viewers)
  \/ MountItemDetailPage
  \/ fetchItem
  \/ setDeleteConfirm
  \/ ItemDetailPage_handleDeleteItem
  \/ ItemDetailPage_SettleDelete

SpecItemDetail == OwnedInit /\ [][ItemDetailNext]_vars

(***************************************************************************)
(* Claims on the user-growth series.                                       *)
(***************************************************************************)
IsGrowthCall == lastCall.op = "get_user_growth_data"

\* the users created on day d; lastCall is replaced by every write, so the
\* users table is the one the call read
CreatedOn(d) == {u \in DOMAIN users : users[u].created_at = d}

CreatedBetween(from, to) ==
  {u \in DOMAIN users : users[u].created_at >= from /\ users[u].created_at <= to}

C9_DegenerateWindowSingleRow ==
  (IsGrowthCall /\ lastCall.days_back <= 0) =>
    /\ Len(lastCall.rows) = 1
    /\ lastCall.rows[1].date = lastCall.at

ExampleUsers(D) ==
  /\ Cardinality(CreatedOn(D)) = 3
  /\ Cardinality(CreatedOn(D + 1)) = 2
  /\ Cardinality(DOMAIN users) = 5

ExampleSeries(D) ==
  <<[date |-> D, new_users |-> 3, cumulative_users |-> 3],
    [date |-> D + 1, new_users |-> 2, cumulative_users |-> 5]>>

IsCategoryCall == lastCall.op = "get_category_distribution"

\* the number of available items of category c in the items table
AvailableIn(c) ==
  LET Match(r) == r.is_available /\ r.category = c
  IN  BagCardinality(BagWhere(items, Match))

AvailableTotal ==
  LET Match(r) == r.is_available
  IN  BagCardinality(BagWhere(items, Match))

AvailableCategories == {c \in Categories : AvailableIn(c) > 0}

RECURSIVE SumPercentage(_)
SumPercentage(rows) ==
  IF rows = <<>> THEN 0 ELSE Head(rows).percentage + SumPercentage(Tail(rows))

Distance(a, b) == IF a >= b THEN a - b ELSE b - a

IsSnapshotCall == lastCall.op = "get_platform_analytics"

Counters ==
  {"total_users", "total_items", "total_views", "total_favorites", "total_messages",
   "total_reports", "active_users_today", "new_users_today", "new_items_today",
   "pending_reports"}

\* the users that have a view recorded on day d or later
ViewersSince(d) ==
  {u \in Viewers : \E v \in BagToSet(item_views) : v.user_id = u /\ v.created_at >= d}

\* C6: the call returns one row; the totals are the row counts of the
\* tables, active_users_today the number of distinct users with a view
\* recorded since the start of the day of the call, new_users_today and
\* new_items_today the users and items created since then, pending_reports
\* the reports of status 'pending'; nothing depends on days_back
C6_SnapshotCounters ==
  IsSnapshotCall =>
    /\ Len(lastCall.rows) = 1
    /\ LET row == lastCall.rows[1]
           day == lastCall.at
           CreatedSince(r) == r.created_at >= day
       IN  /\ DOMAIN row = Counters
           /\ row.total_users = Cardinality(DOMAIN users)
           /\ row.total_items = BagCardinality(items)
           /\ row.total_views = BagCardinality(item_views)
           /\ row.total_favorites = favorites
           /\ row.total_messages = messages
           /\ row.total_reports = BagCardinality(reports)
           /\ row.active_users_today = Cardinality(ViewersSince(day))
           /\ row.new_users_today =
                Cardinality({u \in DOMAIN users : users[u].created_at = day})
           /\ row.new_items_today = BagCardinality(BagWhere(items, CreatedSince))
           /\ row.pending_reports =
                Cardinality({r.id : r \in {p \in BagToSet(reports) : p.status = "pending"}})

C6_Witness ==
  /\ IsSnapshotCall
  /\ lastCall.days_back = 30
  /\ lastCall.at = 1
  /\ lastCall.rows[1].total_users = 2
  /\ lastCall.rows[1].new_users_today = 1
  /\ lastCall.rows[1].total_reports > lastCall.rows[1].pending_reports

BothSnapshots == IsSnapshotCall /\ previous.op = "get_platform_analytics"

\* C8 (as claimed): two snapshots with no write between them have identical
\* counters
C8_SnapshotRepeatable ==
  BothSnapshots => lastCall.rows = previous.rows

\* C8 (amended): two snapshots with no write between them, taken on the same
\* calendar day, have identical counters
C8_SnapshotRepeatableSameDay ==
  (BothSnapshots /\ lastCall.at = previous.at) => lastCall.rows = previous.rows

C8_Witness ==
  /\ BothSnapshots
  /\ lastCall.at = previous.at
  /\ lastCall.days_back = 30
  /\ lastCall.rows[1].new_users_today >= 1
  /\ lastCall.rows[1].active_users_today >= 1
  /\ lastCall.rows = previous.rows

(***************************************************************************)
(* Claims on the administrator gate and the admin log.                     *)
(***************************************************************************)
AggregatorOps ==
  {"get_platform_analytics", "get_user_growth_data", "get_category_distribution",
   "log_admin_action"}

\* C11: an aggregator operation returns data or takes effect, and the admin
\* console is rendered, only for a caller who is an administrator (every
\* write and every sign-in replaces lastCall, so is_admin is that of the call)
C11_AdministratorGate ==
  /\ (lastCall.op \in AggregatorOps /\ lastCall.err = "ok") => is_admin
  /\ (lastCall.op = "ProtectedAdminRoute" /\ lastCall.err = "children") => is_admin

C13_LogAppendsOneRow ==
  [][(lastCall'.op = "log_admin_action" /\ lastCall'.err = "ok") =>
       admin_logs' =
         Append(admin_logs,
                [admin_id |-> auth_uid,
                 action |-> log_args'.action_name,
                 target_type |-> log_args'.target_type_param,
                 target_id |-> log_args'.target_id_param,
                 details |-> log_args'.details_param,
                 created_at |-> today])]_vars

C13_Witness ==
  /\ lastCall.op = "log_admin_action"
  /\ lastCall.err = "ok"
  /\ Len(admin_logs) = 2
  /\ admin_logs[1].admin_id # admin_logs[2].admin_id
  /\ admin_logs[1].target_id = Absent
  /\ log_args.target_id_param # Absent

\* C15: a call of log_admin_action whose target id is no uuid, and which is
\* otherwise in order, succeeds and appends a row whose target_id is NULL
C15_MalformedTargetStillLogged ==
  (/\ lastCall.op = "log_admin_action"
   /\ log_args.target_id_param # Absent
   /\ ~ParseUuid(log_args.target_id_param[1]).ok
   /\ log_args.action_name # Absent
   /\ auth_uid \in DOMAIN users) =>
    /\ lastCall.err = "ok"
    /\ Len(admin_logs) > 0
    /\ admin_logs[Len(admin_logs)].target_id = Absent
    /\ admin_logs[Len(admin_logs)].action = log_args.action_name

(***************************************************************************)
(* Claims on admin_settings.                                               *)
(***************************************************************************)
KeysUnique(table) ==
  \A r \in BagToSet(table) :
    /\ CopiesIn(r, table) = 1
    /\ RowsOfKey(table, r.key) = {r}

\* C20: no key ever has two rows; a step that runs the default-settings
\* insert leaves every row that was there as it was, adds one row with the
\* default value for each default key that had none, and adds nothing else
C20_DefaultSettingsUpsert ==
  /\ []KeysUnique(admin_settings)
  /\ [][lastCall'.op = "insert_default_settings" =>
          /\ \A r \in BagToSet(admin_settings) :
               CopiesIn(r, admin_settings') = CopiesIn(r, admin_settings)
          /\ \A i \in 1..Len(DefaultRows) :
               /\ Cardinality(RowsOfKey(admin_settings', DefaultRows[i].key)) = 1
               /\ RowsOfKey(admin_settings, DefaultRows[i].key) = {} =>
                    CopiesIn(DefaultRows[i], admin_settings') = 1
          /\ \A r \in BagToSet(admin_settings') :
               \/ r \in BagToSet(admin_settings)
               \/ \E i \in 1..Len(DefaultRows) : r = DefaultRows[i]]_vars

\* the insert has run on a table where one default key had an edited value
\* and another had no row
C20_Witness ==
  /\ lastCall.op = "insert_default_settings"
  /\ \E i, j \in 1..Len(DefaultRows) :
       /\ i # j
       /\ CopiesIn(DefaultRows[i], admin_settings) = 1
       /\ RowsOfKey(admin_settings, DefaultRows[j].key) # {DefaultRows[j]}
  /\ RowsOfKey(admin_settings, "theme") # {}

(***************************************************************************)
(* Claims on the reports screen.                                           *)
(***************************************************************************)
\* C19: every stored report, every report of the screen's list and the
\* selected report have a status among pending, reviewed, resolved, dismissed
C19_ReportStatusInDomain ==
  /\ \A r \in BagToSet(reports) : r.status \in ReportStatus
  /\ screen.name = "reports" =>
       /\ \A id \in DOMAIN screen.reports : screen.reports[id] \in ReportStatus
       /\ screen.selectedReport # Absent =>
            screen.selectedReport[1].status \in ReportStatus

\* the screen has updated the selected report, now dismissed, while it still
\* lists as pending a report that another screen has resolved
C19_Witness ==
  /\ screen.name = "reports"
  /\ lastCall.op = "update_report"
  /\ lastCall.err = "ok"
  /\ screen.selectedReport # Absent
  /\ screen.selectedReport[1].status = "dismissed"
  /\ \E id \in DOMAIN screen.reports :
       /\ id # screen.selectedReport[1].id
       /\ screen.reports[id] = "pending"
       /\ StoredReports[id] = "resolved"

(***************************************************************************)
(* Claims on the analytics screen.                                         *)
(***************************************************************************)
AllFetchesSettled ==
  /\ screen.name = "analytics"
  /\ \A m \in MetricNames : screen.promises[m].state # "pending"

\* C16: once the six fetches of a fetchAnalytics have completed, every metric
\* whose fetch succeeded is stored in the analytics record (and so displayed)
\* with the value fetched, whichever fetches failed and in whichever order
\* they completed
C16_SucceededMetricsDisplayed ==
  AllFetchesSettled =>
    /\ ~screen.loading
    /\ \A m \in MetricNames :
         screen.promises[m].state = "fulfilled" =>
           screen.analytics[m] = screen.promises[m].value

\* C18: the user-growth and item-growth series of a completed fetchAnalytics
\* have one entry for every day from the start date to the end date, in
\* order, with the number of rows created that day, 0 when there is none
C18_GrowthSeriesContiguous ==
  (AllFetchesSettled /\ screen.all = "fulfilled") =>
    \A m \in {"userGrowth", "itemGrowth"} :
      LET series == screen.analytics[m]
      IN  /\ Len(series) = screen.endDate - screen.startDate + 1
          /\ \A i \in 1..Len(series) :
               /\ series[i].date = screen.startDate + (i - 1)
               /\ series[i].count =
                    IF m = "userGrowth"
                    THEN Cardinality({u \in DOMAIN users :
                                        users[u].created_at = series[i].date})
                    ELSE SumCopies({r \in BagToSet(items) :
                                      r.created_at = series[i].date}, items)

(***************************************************************************)
(* Claims on the dashboard.                                                *)
(***************************************************************************)
\* C17: a counter whose query failed is not shown as a count
C17_FailedCounterUnavailable ==
  screen.name = "dashboard" =>
    \A query \in screen.errors :
      \A counter \in CountersOf(query) : DashboardCard(counter).shown # "count"
(***************************************************************************)
(* Claims on the row-level policies.                                       *)
(***************************************************************************)
\* the administrator predicate on the caller's users row as it is now
CallerIsAdminNow ==
  /\ auth_uid \in DOMAIN users
  /\ IsAdminEmail(users[auth_uid].email)

C22_RouteGuard ==
  lastCall.op = "ProtectedAdminRoute" =>
    /\ screen.name = "route"
    /\ screen.loading => screen.element = "loading"
    /\ (~screen.loading /\ auth_uid = NULL) => screen.element = "navigate_auth"
    /\ (~screen.loading /\ auth_uid # NULL) => screen.element = "children"

\* the admin pages are rendered for a signed-in user whose email is no
\* administrator email
C22_Witness ==
  /\ lastCall.op = "ProtectedAdminRoute"
  /\ screen.element = "children"
  /\ auth_uid \in DOMAIN users
  /\ ~IsAdminEmail(users[auth_uid].email)

\* C23: an update made through the reports screen moves the status of a
\* stored report only from pending to resolved or to dismissed, and the
\* statuses the screen shows likewise; a failed update leaves the list and
\* the selected report as they were
C23_StatusMovesFromPendingOnly ==
  [][lastCall'.op = "update_report" =>
       /\ \A id \in DOMAIN StoredReports :
            StoredReports'[id] # StoredReports[id] =>
              /\ StoredReports[id] = "pending"
              /\ StoredReports'[id] \in {"resolved", "dismissed"}
       /\ \A id \in DOMAIN screen.reports :
            screen'.reports[id] # screen.reports[id] =>
              /\ screen.reports[id] = "pending"
              /\ screen'.reports[id] \in {"resolved", "dismissed"}
       /\ lastCall'.err # "ok" => screen' = screen]_vars

(***************************************************************************)
(* Claims on the item management screen.                                   *)
(***************************************************************************)
\* the request of handleToggleAvailability that has just settled
ToggleSettled(call) ==
  /\ call.op = "settled"
  /\ call.rows[1].op = "handleToggleAvailability"

\* C24: when the update of handleToggleAvailability(itemId, currentStatus)
\* has succeeded, the item of that id in the list has is_available = not
\* currentStatus and every other item of the list is as it was; when it has
\* failed the list is as it was; actionLoading is null in both cases
C24_ToggleSettles ==
  [][ToggleSettled(lastCall') =>
       LET itemId == lastCall'.rows[1].itemId
           currentStatus == lastCall'.rows[1].currentStatus
       IN  /\ screen'.actionLoading = NULL
           /\ DOMAIN screen'.items = DOMAIN screen.items
           /\ \A id \in DOMAIN screen.items :
                screen'.items[id] =
                  IF lastCall'.err = "ok" /\ id = itemId THEN ~currentStatus
                  ELSE screen.items[id]]_vars

\* a toggle has succeeded for an item of a list that holds another item,
\* while a second toggle of the same item is in flight
C24_Witness ==
  /\ ToggleSettled(lastCall)
  /\ lastCall.err = "ok"
  /\ lastCall.rows[1].itemId \in DOMAIN screen.items
  /\ DOMAIN screen.items # {lastCall.rows[1].itemId}
  /\ \E request \in BagToSet(screen.requests) :
       /\ request.itemId = lastCall.rows[1].itemId
       /\ request.op = "handleToggleAvailability"
       /\ request.currentStatus = screen.items[request.itemId]

\* C25: the toggle and delete buttons of an item are disabled as long as a
\* request for that item is in flight, and no two requests for the same item
\* are in flight together
C25_ButtonsDisabledWhileInFlight ==
  screen.name = "items" =>
    /\ \A request \in BagToSet(screen.requests) :
         /\ screen.actionLoading = request.itemId
         /\ CopiesIn(request, screen.requests) = 1
    /\ \A r1, r2 \in BagToSet(screen.requests) :
         r1.itemId = r2.itemId => r1 = r2

(***************************************************************************)
(* Claims on the loading flags.                                            *)
(***************************************************************************)
ScreenLoading ==
  /\ screen.name \in {"analytics", "dashboard", "items", "reports"}
  /\ screen.loading

\* C26: on the analytics, dashboard, item management and reports screens
\* loading becomes false after the screen is opened, is false once the
\* fetches have all settled, whether they succeeded or failed, and is never
\* true again
C26_LoadingEnds ==
  /\ ScreenLoading ~> ~ScreenLoading
  /\ [](AllFetchesSettled => ~screen.loading)
  /\ [][(screen # NoScreen /\ ~ScreenLoading) => ~ScreenLoading']_vars

\* the first fetches of the analytics screen have failed, the time range has
\* been changed and fetches are in flight again, with loading false
C26_Witness ==
  /\ screen.name = "analytics"
  /\ screen.timeRange # DefaultTimeRange
  /\ \E m \in MetricNames : screen.promises[m].state = "pending"
  /\ \E m \in MetricNames : screen.promises[m].state = "rejected"
  /\ screen.analytics = [m \in MetricNames |-> <<>>]
  /\ ~screen.loading

(***************************************************************************)
(* Claims on the profile page.                                             *)
(***************************************************************************)
\* C27: handleDeleteItem(itemId) of the profile page sends the delete only
\* when deleteConfirm is itemId already, and otherwise only sets
\* deleteConfirm to itemId; a delete that succeeded removes the item from
\* userItems and sets deleteConfirm to null, a delete that failed leaves
\* userItems as it was and sets the error 'Failed to delete item'
C27_TwoStepDelete ==
  [][/\ lastCall'.op = "UserProfile.handleDeleteItem" =>
          LET itemId == lastCall'.rows[1]
          IN  /\ items' = items
              /\ screen'.userItems = screen.userItems
              /\ IF screen.deleteConfirm = itemId
                 THEN /\ screen'.deletes = screen.deletes (+) SetToBag({itemId})
                      /\ screen'.deleteConfirm = itemId
                 ELSE /\ screen'.deletes = screen.deletes
                      /\ screen'.deleteConfirm = itemId
     /\ lastCall'.op = "UserProfile.delete_settled" =>
          LET itemId == lastCall'.rows[1]
          IN  IF lastCall'.err = "ok"
              THEN /\ screen'.userItems = screen.userItems \ {itemId}
                   /\ screen'.deleteConfirm = NULL
                   /\ itemId \notin {r.id : r \in BagToSet(items')}
              ELSE /\ screen'.userItems = screen.userItems
                   /\ screen'.error = "Failed to delete item"
                   /\ items' = items
     /\ lastCall'.op \notin {"UserProfile.handleDeleteItem",
                             "UserProfile.delete_settled"} =>
          /\ items' = items
          /\ screen.name = "profile" => screen'.deletes = screen.deletes]_vars

\* the delete of an item has failed after the trash button of another item
\* was clicked: the item is still listed, the other item is in confirmation
C27_Witness ==
  /\ lastCall.op = "UserProfile.delete_settled"
  /\ lastCall.err = "storage_error"
  /\ screen.error = "Failed to delete item"
  /\ lastCall.rows[1] \in screen.userItems
  /\ screen.deleteConfirm \in screen.userItems \ {lastCall.rows[1]}

(***************************************************************************)
(* Claims on the item detail page.                                         *)
(***************************************************************************)
\* C28: handleDeleteItem of the item detail page sends the delete only when
\* deleteConfirm is true already and the signed-in user is the item's owner;
\* called with deleteConfirm false it only sets deleteConfirm to true; once
\* the delete has settled deleting is false, and the page navigates to
\* /dashboard only after a delete that succeeded
C28_OwnerConfirmedDelete ==
  [][(screen.name = "detail" /\ screen'.name = "detail") =>
       /\ lastCall'.op = "ItemDetailPage.handleDeleteItem" =>
            /\ items' = items
            /\ screen'.request # screen.request =>
                 /\ screen.deleteConfirm
                 /\ auth_uid # NULL
                 /\ screen.item # Absent
                 /\ auth_uid = screen.item[1].user_id
                 /\ screen'.request = Some(screen.item[1].id)
            /\ ~screen.deleteConfirm =>
                 screen' = [screen EXCEPT !.deleteConfirm = TRUE]
       /\ lastCall'.op = "ItemDetailPage.delete_settled" =>
            /\ ~screen'.deleting
            /\ screen'.location = "dashboard" <=> lastCall'.err = "ok"
       /\ lastCall'.op # "ItemDetailPage.handleDeleteItem" =>
            (screen'.request # Absent => screen'.request = screen.request)
       /\ lastCall'.op # "ItemDetailPage.delete_settled" =>
            /\ items' = items
            /\ screen'.location = screen.location]_vars

\* the owner has confirmed, the delete was sent and has failed: the page is
\* still shown, with the error, and deleting is false
C28_Witness ==
  /\ screen.name = "detail"
  /\ lastCall.op = "ItemDetailPage.delete_settled"
  /\ lastCall.err = "storage_error"
  /\ isOwner
  /\ screen.deleteConfirm
  /\ ~screen.deleting
  /\ screen.location = "item"
  /\ screen.error = "Failed to delete item"

(***************************************************************************)
(* Claims on the profile editor.                                           *)
(***************************************************************************)
\* C29: when the upload of the selected avatar fails during handleSave, no
\* profile update is sent, the form stays in editing mode with the upload
\* error shown, and saving is false
C29_FailedUploadStopsSave ==
  [][(lastCall'.op = "upload_settled" /\ lastCall'.err = "storage_error") =>
       /\ screen'.save.at = "idle"
       /\ screen'.editing = screen.editing
       /\ screen'.error = "Upload failed"
       /\ ~screen'.saving]_vars

\* C30: handleFileSelect accepts a file only when its type starts with
\* image/ and its size is below 2 MB; a rejected file sets the error and
\* leaves selectedFile and previewUrl as they were, an accepted file becomes
\* selectedFile, gets a preview and clears the error
C30_FileValidation ==
  [][lastCall'.op = "handleFileSelect" =>
       LET file == lastCall'.rows[1]
           valid == /\ StartsWith(file.type, ImagePrefix)
                    /\ file.size < 2 * 1024 * 1024
       IN  IF valid
             THEN /\ screen'.selectedFile = Some(file)
                  /\ screen'.previewUrl = Some(file)
                  /\ screen'.error = ""
             ELSE /\ screen'.error # ""
                  /\ screen'.selectedFile = screen.selectedFile
                  /\ screen'.previewUrl = screen.previewUrl]_vars

====
